---- MODULE Spec2Model ----
(***************************************************************************)
(* create-totistack: the schema-driven generator and the code it emits.    *)
(*                                                                         *)
(* Several state machines share this module, each with its own             *)
(* specification:                                                          *)
(*   SpecNaming       the naming helpers toCamelCase / toPascalCase        *)
(*   SpecValidator    the validator emitted by generateValidationModule    *)
(*   SpecGen          init(): generateStore, generateFormComponents,       *)
(*                    generateRouter                                       *)
(*   SpecStoreRoles   remove, assignRoles, revokeRoles of the emitted      *)
(*                    useFirestoreCollectionActions factory                *)
(*   SpecStorePaging  fetchInitialPage and fetchNextPage of that factory,  *)
(*                    their awaits interleaved                             *)
(*   SpecStoreCrud    get, add, update, search, remove, applyFilters and   *)
(*                    fetchNextPage of that factory                        *)
(*   SpecAuth         the actions of the emitted auth store                *)
(*   SpecEmailValidator  the emitted validator of a collection with an     *)
(*                    email field                                          *)
(*   SpecCreateForm   the initial values of the emitted create forms       *)
(*   SpecArrayField   an array field loaded and submitted by Edit.vue      *)
(*   SpecSubmitForm   handleSubmit of Create.vue and Edit.vue              *)
(*   SpecRegen        init() run again on the same schema and answers      *)
(*   SpecSubmitPair   handleSubmit of each form generator with each        *)
(*                    validator generator                                  *)
(*   SpecNextPageOverlap  fetchNextPage calls overlapping after a first    *)
(*                    page                                                 *)
(*   SpecPageThrough  one caller paging until hasMore is false             *)
(*   SpecNav          the emitted router: route matching and authGuard     *)
(* Text is modelled as a sequence of one-character strings.                *)
(***************************************************************************)
EXTENDS Integers, Sequences, FiniteSets, Bags, TLC

VARIABLES
    \* --- naming helpers
    nmRaw,      \* the raw name handed to the helper
    nmOp,       \* "none" | "camel" | "pascal": the helper applied
    nmOnce,     \* helper(nmRaw)
    nmTwice,    \* helper(helper(nmRaw))
    nmStep,     \* how many times the helper has been applied (0..2)
    \* --- emitted validator
    vFields,    \* the collection's field map: sequence of field types, in declaration order
    vData,      \* the input object: one JavaScript value per field
    vErrors,    \* the errors array of the emitted validate<Collection>
    vAuth,      \* what fetchSignInMethodsForEmail does: "unused" | "inUse" | "throws"
    vChecked,   \* history: the fields fetchSignInMethodsForEmail was called for
    vpc,        \* "ready" | "done"
    \* --- the generation run of init()
    rawCollections,        \* allAnswers.collections, as handed to every generator
    answers,               \* the feature flags of allAnswers
    gpc,                   \* "store" | "forms" | "router" | "done" | "failed"
    processedCollections,  \* generateStore's normalized list
    authCollections,       \* what generateStore hands to generateFirestoreUtilFile as authC
    artifacts,             \* the directories and files written so far
    routes,                \* the routes array of generateRouter
    \* --- the emitted useFirestoreCollectionActions(collectionName, state) at run time
    collectionName,          \* the name baked into the closure
    roles,                   \* the roles list the module was generated with
    emittedAuthCollections,  \* the emitted constant authCollections
    currentUser,             \* state.currentUser.value: [signedIn, roles]
    db,                      \* the documents of the collection: id -> its roles field
    error,                   \* state.error.value
    lastCall,                \* history: the last operation invoked and how it ended
    \* --- state[collectionName].value, state.loading.value and the calls in flight
    items,         \* the ids of the loaded documents, in order
    lastVisible,   \* the cursor: a document id, 0 for null
    hasMore,
    filters,       \* a list of filters, or ObjectFilters for the object {}
    orderBy,       \* "asc" | "desc" on the sort field
    pageSize,
    total,
    loading,       \* state.loading.value
    inflight,      \* the bag of the fetch calls suspended at an await
    lastFetch,     \* history: the last page query answered, its row count and limit
    queries,       \* history: the number of queries sent to the store
    calls,         \* history: the number of fetch operations invoked
    \* --- get, add, update, search
    search,        \* state[collectionName].value.search: [term, results, isActive]
    settled,       \* history: the call that ended last, and what its caller received
    \* --- the emitted auth actions and the emitted create / edit views
    authOp,        \* the auth operation invoked last: [pc, op, code, raw, thrown, slot]
    form,          \* the form of an emitted view: a record, its fields in the sections below
    \* --- the generated project
    clock,         \* the time on the generating machine, in milliseconds
    written,       \* the file texts written by each run of the generators so far
    nav            \* a navigation of the generated router: [pc, user, to, redirects]

namingVars == <<nmRaw, nmOp, nmOnce, nmTwice, nmStep>>
validatorVars == <<vFields, vData, vErrors, vAuth, vChecked, vpc>>
genVars == <<rawCollections, answers, gpc, processedCollections, authCollections,
             artifacts, routes>>
storeVars == <<collectionName, roles, emittedAuthCollections, currentUser, db, error,
               lastCall>>
pagingVars == <<items, lastVisible, hasMore, filters, orderBy, pageSize, total, loading,
                inflight, lastFetch, queries, calls>>
crudVars == <<search, settled>>
viewVars == <<authOp, form>>
projectVars == <<clock, written, nav>>
vars == <<namingVars, validatorVars, genVars, storeVars, pagingVars, crudVars, viewVars,
          projectVars>>

(***************************************************************************)
(* Bounds                                                                  *)
(***************************************************************************)
MaxNameLen == 3
MaxFields == 2
MaxCollections == 2
MaxDocs == 3
MaxPageSize == 2
MaxCalls == 3
MaxInflight == 2
MaxElements == 2
MaxElementLen == 2
MaxClock == 3         \* the latest time on the clock, in milliseconds
MsPerMinute == 2      \* the length of a minute on that clock
MaxRuns == 2          \* runs of the generators on one schema
MaxErrors == 2        \* errors a validator reports for one submit
MaxRedirects == 3     \* the redirects counted in one navigation
MaxSubmits == 3       \* submits of one form

\* all sequences over S of length at most n
SeqsUpTo(S, n) == UNION {[1..k -> S] : k \in 0..n}

(***************************************************************************)
(* Naming helpers (lib/helper/helperF.js)                                  *)
(***************************************************************************)
UpperChars == <<"A", "B", "C", "D", "E", "F", "G", "H", "I", "J", "K", "L", "M",
                "N", "O", "P", "Q", "R", "S", "T", "U", "V", "W", "X", "Y", "Z">>
LowerChars == <<"a", "b", "c", "d", "e", "f", "g", "h", "i", "j", "k", "l", "m",
                "n", "o", "p", "q", "r", "s", "t", "u", "v", "w", "x", "y", "z">>

IsUpperChar(c) == \E i \in 1..Len(UpperChars) : UpperChars[i] = c
IsLowerChar(c) == \E i \in 1..Len(LowerChars) : LowerChars[i] = c

\* String.prototype.toLowerCase / toUpperCase on one character
toLowerChar(c) ==
    IF IsUpperChar(c)
    THEN LowerChars[CHOOSE i \in 1..Len(UpperChars) : UpperChars[i] = c]
    ELSE c
toUpperChar(c) ==
    IF IsLowerChar(c)
    THEN UpperChars[CHOOSE i \in 1..Len(LowerChars) : LowerChars[i] = c]
    ELSE c

toLowerCase(s) == [i \in 1..Len(s) |-> toLowerChar(s[i])]

\* \s of the regular expressions, restricted to the characters of the model
IsWhitespace(c) == c = " "
\* the character class [-\s_] of the split
IsSeparator(c) == c = "-" \/ c = "_" \/ IsWhitespace(c)

RECURSIVE trimStart(_)
trimStart(s) ==
    IF s # <<>> /\ IsWhitespace(Head(s)) THEN trimStart(Tail(s)) ELSE s
RECURSIVE trimEnd(_)
trimEnd(s) ==
    IF s # <<>> /\ IsWhitespace(s[Len(s)])
    THEN trimEnd(SubSeq(s, 1, Len(s) - 1))
    ELSE s
\* String.prototype.trim
trim(s) == trimEnd(trimStart(s))

\* s.split(/[-\s_]+/): the pieces between maximal runs of separators; a leading
\* or trailing run leaves an empty piece, and the empty string gives [""]
RECURSIVE splitOnSeparators(_)
splitOnSeparators(s) ==
    IF s = <<>> THEN << <<>> >>
    ELSE LET rest == splitOnSeparators(Tail(s)) IN
         IF IsSeparator(Head(s))
         THEN IF Tail(s) # <<>> /\ IsSeparator(Head(Tail(s)))
              THEN rest
              ELSE << <<>> >> \o rest
         ELSE << <<Head(s)>> \o Head(rest) >> \o Tail(rest)

\* w.charAt(0).toUpperCase() + w.slice(1)
capitalize(w) == IF w = <<>> THEN <<>> ELSE <<toUpperChar(Head(w))>> \o Tail(w)

RECURSIVE joinAll(_)
joinAll(ws) == IF ws = <<>> THEN <<>> ELSE Head(ws) \o joinAll(Tail(ws))

\* the map callback of toCamelCase: (w, i) => i === 0 ? w : capitalize(w)
camelPiece(w, i) == IF i = 1 THEN w ELSE capitalize(w)

toCamelCase(str) ==
    LET ws == splitOnSeparators(toLowerCase(trim(str)))
    IN joinAll([i \in 1..Len(ws) |-> camelPiece(ws[i], i)])

toPascalCase(str) ==
    LET ws == splitOnSeparators(toLowerCase(trim(str)))
    IN joinAll([i \in 1..Len(ws) |-> capitalize(ws[i])])

NameAlphabet == {"a", "b", "A", "-", "_", " "}
RawNames == SeqsUpTo(NameAlphabet, MaxNameLen)

applyHelper(op, s) == IF op = "camel" THEN toCamelCase(s) ELSE toPascalCase(s)

NamingIdle ==
    /\ nmRaw = <<>>
    /\ nmOp = "none"
    /\ nmOnce = <<>>
    /\ nmTwice = <<>>
    /\ nmStep = 0

NamingInit ==
    /\ nmRaw \in RawNames
    /\ nmOp = "none"
    /\ nmOnce = <<>>
    /\ nmTwice = <<>>
    /\ nmStep = 0

\* a generator derives an identifier from the raw name
DeriveName ==
    /\ nmStep = 0
    /\ \E op \in {"camel", "pascal"} :
          /\ nmOp' = op
          /\ nmOnce' = applyHelper(op, nmRaw)
    /\ nmStep' = 1
    /\ UNCHANGED <<nmRaw, nmTwice>>
    /\ UNCHANGED <<projectVars, viewVars, validatorVars, genVars, storeVars, pagingVars, crudVars>>

\* a second generator derives it again from the already derived identifier
RederiveName ==
    /\ nmStep = 1
    /\ nmTwice' = applyHelper(nmOp, nmOnce)
    /\ nmStep' = 2
    /\ UNCHANGED <<nmRaw, nmOp, nmOnce>>
    /\ UNCHANGED <<projectVars, viewVars, validatorVars, genVars, storeVars, pagingVars, crudVars>>

NamingNext == DeriveName \/ RederiveName

(***************************************************************************)
(* The emitted validator (generateValidationModule)                        *)
(*                                                                         *)
(* A field map is the sequence of its field types in declaration order     *)
(* (for ... in walks the keys in insertion order); field i of the input    *)
(* object holds vData[i].  JavaScript values are the tags of JSValues.     *)
(***************************************************************************)
FieldTypes == {"string", "number", "boolean", "array", "object", "timestamp", "email"}

JSValues == {"undefined", "null", "''", "' '", "'x'", "'a@b.c'", "'2020-01-01'",
             "5", "NaN", "true", "[]", "['x']", "{}", "Date"}

JSStrings == {"''", "' '", "'x'", "'a@b.c'", "'2020-01-01'"}

\* typeof v
typeOf(v) ==
    CASE v = "undefined" -> "undefined"
      [] v \in JSStrings -> "string"
      [] v \in {"5", "NaN"} -> "number"
      [] v = "true" -> "boolean"
      [] OTHER -> "object"

\* String(v).trim() === ''   (String([]) is the empty string)
stringTrimIsEmpty(v) == v \in {"''", "' '", "[]"}

\* the global isNaN(v): Number(v) is NaN
isNaN(v) == v \in {"undefined", "'x'", "'a@b.c'", "'2020-01-01'", "NaN", "['x']", "{}"}

isArray(v) == v \in {"[]", "['x']"}

instanceofDate(v) == v = "Date"

\* isNaN(new Date(v).getTime())
dateIsInvalid(v) ==
    v \in {"undefined", "''", "' '", "'x'", "'a@b.c'", "NaN", "[]", "['x']", "{}"}

\* /^\S+@\S+\.\S+$/.test(v), v converted to a string
emailRegexTest(v) == v = "'a@b.c'"

\* the condition of a requiredFieldChecks entry
requiredCheck(v) == v = "undefined" \/ v = "null" \/ stringTrimIsEmpty(v)

\* the prefix of a typeChecks entry:
\* data.f !== undefined && data.f !== null && String(data.f).trim() !== ''
presentCheck(v) == v # "undefined" /\ v # "null" /\ ~stringTrimIsEmpty(v)

\* typeCheckCondition of the switch, as the sequence of the operands of its
\* top-level || operators
typeCheckCondition(type, v) ==
    CASE type = "string" -> <<typeOf(v) # "string">>
      [] type = "number" -> <<typeOf(v) # "number", isNaN(v)>>
      [] type = "boolean" -> <<typeOf(v) # "boolean">>
      [] type = "array" -> <<~isArray(v)>>
      [] type = "object" -> <<typeOf(v) # "object", isArray(v), v = "null">>
      [] type = "timestamp" ->
            <<typeOf(v) # "string" /\ ~instanceofDate(v), dateIsInvalid(v)>>
      [] type = "email" -> <<typeOf(v) # "string", ~emailRegexTest(v)>>
      [] OTHER -> <<>>

\* the condition of a typeChecks entry, `present && ${typeCheckCondition}`:
\* && binds tighter than ||, so the presence prefix guards the first operand only
typeCheck(type, v) ==
    LET c == typeCheckCondition(type, v)
    IN /\ c # <<>>
       /\ \/ presentCheck(v) /\ c[1]
          \/ \E k \in 2..Len(c) : c[k]

\* an existence check that does not look at the format of the value
emailFieldCheck(type, v) ==
    type = "email" /\ typeOf(v) = "string" /\ ~stringTrimIsEmpty(v)

\* the condition of an emailExistenceChecks entry
emailExistenceCheck(type, v) ==
    type = "email" /\ typeOf(v) = "string" /\ ~stringTrimIsEmpty(v) /\ emailRegexTest(v)

RequiredError(i) == [field |-> i, kind |-> "required"]
TypeError(i) == [field |-> i, kind |-> "type"]
InUseError(i) == [field |-> i, kind |-> "inUse"]

\* the body of validate<Collection>: the required checks of every field, then
\* the type checks of every field, each pushing onto errors
validate(fields, data, auth) ==
    LET idx == [i \in 1..Len(fields) |-> i]
        req == SelectSeq(idx, LAMBDA i : requiredCheck(data[i]))
        typ == SelectSeq(idx, LAMBDA i : typeCheck(fields[i], data[i]))
        use == SelectSeq(idx, LAMBDA i : emailExistenceCheck(fields[i], data[i])
                                           /\ auth = "inUse")
    IN [k \in 1..Len(req) |-> RequiredError(req[k])]
       \o [k \in 1..Len(typ) |-> TypeError(typ[k])]
       \o [k \in 1..Len(use) |-> InUseError(use[k])]

\* the fields whose emailExistenceChecks entry calls fetchSignInMethodsForEmail
existenceChecked(fields, data) ==
    {i \in 1..Len(fields) : emailExistenceCheck(fields[i], data[i])}

\* {title: string, price: number, inStock: boolean} and {title: "", price: "x", inStock: true}
ScenarioAFields == <<"string", "number", "boolean">>
ScenarioAData == <<"''", "'x'", "true">>

FieldMaps == SeqsUpTo(FieldTypes, MaxFields) \cup {ScenarioAFields}

ValidatorIdle ==
    /\ vFields = <<>>
    /\ vData = <<>>
    /\ vErrors = <<>>
    /\ vAuth = "unused"
    /\ vChecked = {}
    /\ vpc = "idle"

ValidatorInit ==
    /\ vFields \in FieldMaps
    /\ vData \in [1..Len(vFields) -> JSValues]
    /\ vErrors = <<>>
    /\ vAuth \in {"unused", "inUse", "throws"}
    /\ vChecked = {}
    /\ vpc = "ready"

\* a form calls validate<Collection>(data)
Validate ==
    /\ vpc = "ready"
    /\ vErrors' = validate(vFields, vData, vAuth)
    /\ vChecked' = existenceChecked(vFields, vData)
    /\ vpc' = "done"
    /\ UNCHANGED <<vFields, vData, vAuth>>
    /\ UNCHANGED <<projectVars, viewVars, namingVars, genVars, storeVars, pagingVars, crudVars>>

ValidatorNext == Validate


(***************************************************************************)
(* The generation run: init() calls generateStore, generateFormComponents  *)
(* and generateRouter in this order; any exception ends the run.           *)
(*                                                                         *)
(* A raw collection is [nameDefined, name, fields]: fields is "undefined", *)
(* "empty" ({}) or "some".  An artifact is [dir, name, file, of]: the path *)
(* dir/<name><file>, name being the part derived from a collection name,   *)
(* and of the index of the raw collection it was written for (0: none).    *)
(***************************************************************************)
AuthCollectionNames ==
    {<<"u", "s", "e", "r", "s">>,
     <<"u", "s", "e", "r">>,
     <<"c", "u", "s", "t", "o", "m", "e", "r">>,
     <<"c", "l", "i", "e", "n", "t">>,
     <<"c", "l", "i", "e", "n", "t", "s">>,
     <<"c", "u", "s", "t", "o", "m", "e", "r", "s">>,
     <<"s", "t", "u", "d", "e", "n", "t">>,
     <<"s", "t", "u", "d", "e", "n", "t", "s">>,
     <<"a", "d", "m", "i", "n", "s">>,
     <<"a", "d", "m", "i", "n">>,
     <<"a", "c", "c", "o", "u", "n", "t", "s">>,
     <<"a", "c", "c", "o", "u", "n", "t">>}

\* isAuthCollection of generateStore: the name, lowercased, is in the fixed list
isAuthCollection(collectionConfig) ==
    toLowerCase(collectionConfig.name) \in AuthCollectionNames

\* a stricter variant of the check: an empty field map counts as missing too
missingNameOrEmptyFields(c) ==
    \/ ~c.nameDefined
    \/ c.name = <<>>
    \/ c.fields \in {"undefined", "empty"}

\* !c.name || !c.fields
missingNameOrFields(c) ==
    \/ ~c.nameDefined
    \/ c.name = <<>>
    \/ c.fields = "undefined"

\* the map callback of processedCollections, for a collection that passed the check
processCollection(c, i) ==
    [jsType |-> "object", name |-> trim(toCamelCase(c.name)), fields |-> c.fields, of |-> i]

\* collections.map(...).filter(c => c.name)
processCollections(collections) ==
    SelectSeq([i \in 1..Len(collections) |-> processCollection(collections[i], i)],
              LAMBDA c : c.name # <<>>)

Artifact(dir, name, file, of) == [dir |-> dir, name |-> name, file |-> file, of |-> of]

\* ensureDir(actionsDir), generateStateFile, generateFirestoreUtilFile,
\* generateIndexFile and generateDocumentation: files not named after a collection
storeCommonArtifacts ==
    {Artifact("src/stores/appStore/actions", <<>>, "", 0),
     Artifact("src/stores/appStore", <<>>, "state.js", 0),
     Artifact("src/stores/appStore", <<>>, "useFirestoreCollectionActions.js", 0),
     Artifact("src/stores/appStore", <<>>, "index.js", 0),
     Artifact("src/stores/appStore", <<>>, "STORE_GUIDE.md", 0)}

\* generateCollectionActionModule: actions/<name>.js
actionModuleArtifact(c) == Artifact("src/stores/appStore/actions", c.name, ".js", c.of)

\* generateValidationModule: src/validators/validate<Name>.js
validatorArtifact(c) == Artifact("src/validators/validate", capitalize(c.name), ".js", c.of)

\* the loop body of generateFormComponents for raw collection i
formArtifacts(c, i) ==
    LET camelCollectionName == toCamelCase(c.name)
    IN {Artifact("src/views", camelCollectionName, "", i),
        Artifact("src/views", camelCollectionName, "/Create.vue", i),
        Artifact("src/views", camelCollectionName, "/Edit.vue", i)}

\* an identifier <prefix><Name><suffix> of an emitted module
Identifier(prefix, name, suffix) == [prefix |-> prefix, name |-> name, suffix |-> suffix]

\* toCamel: str.replace(/-([a-z])/g, (_, c) => c.toUpperCase())
RECURSIVE toCamel(_)
toCamel(str) ==
    IF Len(str) < 2 THEN str
    ELSE IF str[1] = "-" /\ IsLowerChar(str[2])
    THEN <<toUpperChar(str[2])>> \o toCamel(SubSeq(str, 3, Len(str)))
    ELSE <<str[1]>> \o toCamel(Tail(str))

\* what validate<Name>.js exports, and the name part of its path
validatorExports(c) ==
    [module |-> capitalize(c.name), ids |-> {Identifier("validate", capitalize(c.name), "")}]

\* what the action file of generateActionFiles exports for collection c;
\* roleExports: isAuth && roles.length > 0
actionExports(c, roleExports) ==
    LET pascalCol == capitalize(toCamel(c.name))
    IN {Identifier("fetchInitialPage", pascalCol, ""),
        Identifier("fetchNextPage", pascalCol, ""),
        Identifier("apply", pascalCol, "Filters"),
        Identifier("change", pascalCol, "Sorting"),
        Identifier("add", pascalCol, ""),
        Identifier("update", pascalCol, ""),
        Identifier("search", pascalCol, ""),
        Identifier("clear", pascalCol, "Search"),
        Identifier("delete", pascalCol, "")}
       \cup (IF roleExports
             THEN {Identifier("assign", pascalCol, "Roles"),
                   Identifier("revoke", pascalCol, "Roles")}
             ELSE {})

\* the validator import of Create.vue and Edit.vue of raw collection c
viewValidatorImport(c) ==
    LET pascalCollectionName == toPascalCase(c.name)
    IN [module |-> pascalCollectionName,
        ids |-> {Identifier("validate", pascalCollectionName, "")}]

\* the store operations Create.vue and Edit.vue of raw collection c invoke
viewStoreCalls(c) ==
    LET pascalCollectionName == toPascalCase(c.name)
    IN {Identifier("add", pascalCollectionName, ""),
        Identifier("update", pascalCollectionName, ""),
        Identifier("fetch", pascalCollectionName, "")}

\* processedCollections.map(c => c.name)
namesOf(collections) == [k \in 1..Len(collections) |-> collections[k].name]

\* actionInits of generateIndexFile: const <col>Actions = use<Col>Actions(state)
actionInits(collections) ==
    {Identifier("", collections[k], "Actions") : k \in 1..Len(collections)}

\* the auth actions the emitted store returns: none without an auth collection
authActions(authNames) ==
    IF Len(authNames) > 0
    THEN {"login", "signUp", "logout", "sendPasswordReset", "updateProfile",
          "changePassword", "fetchUser", "resendVerificationEmail"}
    ELSE {}

\* the <col>Actions identifiers the emitted auth actions use: login, signUp and
\* updateProfile use the first auth collection's, fetchUser uses adminsActions
authActionRefs(authNames) ==
    IF Len(authNames) > 0
    THEN LET primaryAuthCollection == authNames[1]
         IN {Identifier("", primaryAuthCollection, "Actions"),
             Identifier("", <<"a", "d", "m", "i", "n", "s">>, "Actions")}
    ELSE {}

\* every <col>Actions identifier index.js uses: the spreads and the auth actions
indexFileRefs(collections, authNames) ==
    actionInits(collections) \cup authActionRefs(authNames)

Route(kind, component, requiresAuth, guestOnly) ==
    [kind |-> kind, component |-> component, col |-> <<>>, pascal |-> <<>>, of |-> 0,
     requiresAuth |-> requiresAuth, guestOnly |-> guestOnly]

homeRoutes(a) ==
    IF a.enableLanding
    THEN <<Route("Home", "LandingPage", FALSE, FALSE)>>
    ELSE <<Route("Home", "HomeView", TRUE, FALSE)>>

authRoutes(a) ==
    IF a.enableAuth /\ a.enableAuthViews
    THEN <<Route("Login", "auth/LoginView", FALSE, TRUE),
           Route("Register", "auth/RegisterView", FALSE, TRUE),
           Route("ForgotPassword", "auth/ForgotPasswordView", FALSE, TRUE),
           Route("ResetPassword", "auth/ResetPasswordView", FALSE, TRUE),
           Route("VerifyEmail", "auth/VerifyEmailView", FALSE, TRUE),
           Route("Unauthorized", "auth/UnauthorizedView", FALSE, FALSE),
           Route("Account", "AccountView", TRUE, FALSE),
           Route("Settings", "SettingsView", TRUE, FALSE)>>
    ELSE <<>>

adminRoutes(a) ==
    IF a.enableAdmin
    THEN <<Route("AdminDashboard", "admin/DashboardView", TRUE, FALSE),
           Route("AdminUsers", "admin/UsersView", TRUE, FALSE)>>
    ELSE <<>>

\* the two routes pushed for raw collection i: /<camel>/create and /<camel>/edit/:id
collectionRoutePair(c, i) ==
    LET pascalCollectionName == toPascalCase(c.name)
        camelCollectionName == toCamelCase(c.name)
        r(kind) == [kind |-> kind, component |-> kind, col |-> camelCollectionName,
                    pascal |-> pascalCollectionName, of |-> i,
                    requiresAuth |-> TRUE, guestOnly |-> FALSE]
    IN <<r("Create"), r("Edit")>>

RECURSIVE collectionRoutes(_, _)
collectionRoutes(collections, i) ==
    IF i > Len(collections) THEN <<>>
    ELSE collectionRoutePair(collections[i], i) \o collectionRoutes(collections, i + 1)

catchAllRoute == <<Route("CatchAll", "redirect:/", FALSE, FALSE)>>

\* a router that pushes the fallback route before the collections' routes
buildRoutesFallbackFirst(a, collections) ==
    homeRoutes(a) \o authRoutes(a) \o adminRoutes(a)
        \o catchAllRoute \o collectionRoutes(collections, 1)

buildRoutes(a, collections) ==
    homeRoutes(a) \o authRoutes(a) \o adminRoutes(a)
        \o collectionRoutes(collections, 1) \o catchAllRoute

\* router/index.js and the placeholder views
routerArtifacts(a) ==
    {Artifact("src/router", <<>>, "", 0), Artifact("src/router", <<>>, "index.js", 0)}
    \cup {Artifact("src/views", <<>>, IF a.enableLanding THEN "LandingPage.vue" ELSE "HomeView.vue", 0)}
    \cup (IF a.enableAuth /\ a.enableAuthViews
          THEN {Artifact("src/views/auth", <<>>, "", 0), Artifact("src/views", <<>>, "AccountView.vue", 0),
                Artifact("src/views", <<>>, "SettingsView.vue", 0)}
          ELSE {})
    \cup (IF a.enableAdmin THEN {Artifact("src/views/admin", <<>>, "", 0)} ELSE {})

GenNameChoices ==
    {<<>>, <<"-", "-">>, <<"U", "s", "e", "r", "s">>, <<"i", "t", "e", "m", "s">>, <<"a", " ", "b">>,
     <<"a", "-", "b">>}

RawCollectionChoices ==
    {[nameDefined |-> FALSE, name |-> <<>>, fields |-> f] : f \in {"undefined", "empty", "some"}}
    \cup {[nameDefined |-> TRUE, name |-> n, fields |-> f] :
             n \in GenNameChoices, f \in {"undefined", "empty", "some"}}

AnswerChoices ==
    [enableLanding : BOOLEAN, enableAuth : BOOLEAN, enableAuthViews : BOOLEAN,
     enableAdmin : BOOLEAN]

GenIdle ==
    /\ rawCollections = <<>>
    /\ answers = [enableLanding |-> FALSE, enableAuth |-> FALSE, enableAuthViews |-> FALSE,
                  enableAdmin |-> FALSE]
    /\ gpc = "idle"
    /\ processedCollections = <<>>
    /\ authCollections = <<>>
    /\ artifacts = {}
    /\ routes = <<>>

GenInit ==
    /\ rawCollections \in SeqsUpTo(RawCollectionChoices, MaxCollections)
    /\ answers \in AnswerChoices
    /\ gpc = "store"
    /\ processedCollections = <<>>
    /\ authCollections = <<>>
    /\ artifacts = {}
    /\ routes = <<>>

\* generateStore({storeName: 'appStore', collections, roles, addActivityLogging})
GenerateStore ==
    /\ gpc = "store"
    /\ IF \/ Len(rawCollections) = 0
          \/ \E i \in 1..Len(rawCollections) : missingNameOrFields(rawCollections[i])
       THEN \* thrown before ensureDir: nothing is written
            /\ gpc' = "failed"
            /\ UNCHANGED <<processedCollections, authCollections, artifacts>>
       ELSE LET processed == processCollections(rawCollections)
            IN /\ processedCollections' = processed
               /\ authCollections' = SelectSeq(processed, isAuthCollection)
               /\ artifacts' = artifacts \cup storeCommonArtifacts
                     \cup {actionModuleArtifact(processed[k]) : k \in 1..Len(processed)}
                     \cup {validatorArtifact(processed[k]) : k \in 1..Len(processed)}
               /\ gpc' = "forms"
    /\ UNCHANGED <<rawCollections, answers, routes>>
    /\ UNCHANGED <<projectVars, viewVars, namingVars, validatorVars, storeVars, pagingVars, crudVars>>

\* generateFormComponents(allAnswers.collections)
GenerateFormComponents ==
    /\ gpc = "forms"
    /\ artifacts' = artifacts
          \cup UNION {formArtifacts(rawCollections[i], i) : i \in 1..Len(rawCollections)}
    /\ gpc' = "router"
    /\ UNCHANGED <<rawCollections, answers, processedCollections, authCollections, routes>>
    /\ UNCHANGED <<projectVars, viewVars, namingVars, validatorVars, storeVars, pagingVars, crudVars>>

\* generateRouter(allAnswers)
GenerateRouter ==
    /\ gpc = "router"
    /\ routes' = buildRoutes(answers, rawCollections)
    /\ artifacts' = artifacts \cup routerArtifacts(answers)
    /\ gpc' = "done"
    /\ UNCHANGED <<rawCollections, answers, processedCollections, authCollections>>
    /\ UNCHANGED <<projectVars, viewVars, namingVars, validatorVars, storeVars, pagingVars, crudVars>>

GenNext == GenerateStore \/ GenerateFormComponents \/ GenerateRouter

(***************************************************************************)
(* The emitted persistence module at run time.                             *)
(*                                                                         *)
(* The module is the one generateStore emits for StoreCollections: the     *)
(* constant authCollections is the JSON of what generateStore passed, the  *)
(* list of the processed collection configurations that isAuthCollection   *)
(* selects.  Activity logging is off.                                      *)
(***************************************************************************)
StoreCollections ==
    <<[nameDefined |-> TRUE, name |-> <<"U", "s", "e", "r", "s">>, fields |-> "some"],
      [nameDefined |-> TRUE, name |-> <<"i", "t", "e", "m", "s">>, fields |-> "some"]>>

RoleNames == {"admin", "user"}
RolesChoices == {{}, RoleNames}

NoUser == [signedIn |-> FALSE, roles |-> {}]
UserChoices == {NoUser} \cup {[signedIn |-> TRUE, roles |-> rs] : rs \in {{"user"}, RoleNames}}

AuthRequiredMessage == "Authentication required for this operation."
LacksRoleMessage == "User lacks required role: admin"
NotFoundMessage == "User not found."
StoreErrorMessage == "store error"

\* Array.prototype.includes with a string argument: strict equality, so an
\* element that is an object never matches
includes(array, str) ==
    \E k \in 1..Len(array) : array[k].jsType = "string" /\ array[k].value = str

\* _checkRole(requiredRole): the message of the error it throws, or "ok"
checkRole(user, requiredRole) ==
    IF ~user.signedIn THEN AuthRequiredMessage
    ELSE IF requiredRole \notin user.roles THEN LacksRoleMessage
    ELSE "ok"

\* roles.length > 0 and the condition of adminCheckInRemove
removeChecksAdmin == roles # {} /\ includes(emittedAuthCollections, collectionName)

\* roles.length > 0 and the condition of the spread in authRoleActions
hasRoleActions == roles # {} /\ includes(emittedAuthCollections, collectionName)

Call(op, id, rolesArg, prevRoles, outcome, deleteInvoked) ==
    [op |-> op, id |-> id, rolesArg |-> rolesArg, prevRoles |-> prevRoles,
     outcome |-> outcome, deleteInvoked |-> deleteInvoked, skipped |-> FALSE]

NoCall == Call("none", 0, {}, {}, "none", FALSE)

NotAFunctionMessage == "is not a function"

\* a call that has ended: whether the store rejected it, the message of the error
\* its caller received ("none": it returned) and the kind of value it returned
Settled(op, id, found, rejected, thrown, value) ==
    [op |-> op, id |-> id, found |-> found, rejected |-> rejected, thrown |-> thrown,
     value |-> value]

\* the search slot while no search is active
NoSearch == [term |-> <<>>, results |-> <<>>, isActive |-> FALSE]

NothingSettled == Settled("none", 0, FALSE, FALSE, "none", "undefined")

rolesOf(id) == IF id \in DOMAIN db THEN db[id] ELSE {}

StoreIdle ==
    /\ collectionName = <<>>
    /\ roles = {}
    /\ emittedAuthCollections = <<>>
    /\ currentUser = NoUser
    /\ db = <<>>
    /\ error = "none"
    /\ lastCall = NoCall
    /\ search = NoSearch
    /\ settled = NothingSettled

StoreInit ==
    LET processed == processCollections(StoreCollections)
    IN /\ \E k \in 1..Len(processed) : collectionName = processed[k].name
       /\ roles \in RolesChoices
       /\ emittedAuthCollections = SelectSeq(processed, isAuthCollection)
       /\ currentUser \in UserChoices
       /\ \E n \in 0..MaxDocs : db \in [1..n -> {{}, {"user"}}]
       /\ error = "none"
       /\ lastCall = NoCall
       /\ search = NoSearch
       /\ settled = NothingSettled

\* remove(id)
Remove ==
    \E id \in 1..MaxDocs :
        LET check == IF removeChecksAdmin THEN checkRole(currentUser, "admin") ELSE "ok"
        IN IF check # "ok"
           THEN /\ error' = check
                /\ lastCall' = Call("remove", id, {}, rolesOf(id), "authError", FALSE)
                /\ UNCHANGED db
           ELSE \E deleted \in BOOLEAN :
                   IF deleted
                   THEN /\ db' = [d \in DOMAIN db \ {id} |-> db[d]]
                        /\ lastCall' = Call("remove", id, {}, rolesOf(id), "ok", TRUE)
                        /\ UNCHANGED error
                   ELSE \* deleteDoc rejects
                        /\ error' = StoreErrorMessage
                        /\ lastCall' = Call("remove", id, {}, rolesOf(id), "storeError", TRUE)
                        /\ UNCHANGED db

\* Array.from(new Set([...currentRoles, ...rolesToAssign]))
assignedRoles(currentRoles, rolesToAssign) == currentRoles \cup rolesToAssign
\* currentRoles.filter(role => !rolesToRevoke.includes(role))
remainingRoles(currentRoles, rolesToRevoke) == currentRoles \ rolesToRevoke

newRoles(op, currentRoles, rolesArg) ==
    IF op = "assignRoles" THEN assignedRoles(currentRoles, rolesArg)
    ELSE remainingRoles(currentRoles, rolesArg)

\* the body shared by assignRoles and revokeRoles
changeRoles(op) ==
    \E id \in 1..MaxDocs, rolesArg \in SUBSET RoleNames \ {{}} :
        IF ~hasRoleActions
        THEN \* the method is not on the returned object: the call itself throws
             /\ lastCall' = Call(op, id, rolesArg, rolesOf(id), "notAFunction", FALSE)
             /\ UNCHANGED <<db, error>>
        ELSE LET check == checkRole(currentUser, "admin")
             IN IF check # "ok"
                THEN /\ error' = check
                     /\ lastCall' = Call(op, id, rolesArg, rolesOf(id), "authError", FALSE)
                     /\ UNCHANGED db
                ELSE IF id \notin DOMAIN db
                THEN /\ error' = NotFoundMessage
                     /\ lastCall' = Call(op, id, rolesArg, {}, "notFound", FALSE)
                     /\ UNCHANGED db
                ELSE \E updated \in BOOLEAN :
                        IF updated
                        THEN /\ db' = [db EXCEPT ![id] = newRoles(op, db[id], rolesArg)]
                             /\ lastCall' = Call(op, id, rolesArg, db[id], "ok", FALSE)
                             /\ UNCHANGED error
                        ELSE /\ error' = StoreErrorMessage
                             /\ lastCall' = Call(op, id, rolesArg, db[id], "storeError", FALSE)
                             /\ UNCHANGED db

\* what the caller of a call that ended within one step received
settledCall(call, slot) ==
    Settled(call.op, call.id, call.id \in DOMAIN db, call.outcome = "storeError",
            CASE call.outcome = "ok" -> "none"
              [] call.outcome = "notAFunction" -> NotAFunctionMessage
              [] OTHER -> slot,
            "undefined")

StoreRemove ==
    /\ calls < MaxCalls
    /\ Remove
    /\ settled' = settledCall(lastCall', error')
    /\ calls' = calls + 1
    /\ queries' = IF lastCall'.deleteInvoked THEN queries + 1 ELSE queries
    /\ UNCHANGED <<items, lastVisible, hasMore, filters, orderBy, pageSize, total, loading,
                   inflight, lastFetch>>
    /\ UNCHANGED <<collectionName, roles, emittedAuthCollections, currentUser, search>>
    /\ UNCHANGED <<projectVars, viewVars, namingVars, validatorVars, genVars>>

AssignRoles ==
    /\ changeRoles("assignRoles")
    /\ settled' = settledCall(lastCall', error')
    /\ UNCHANGED <<collectionName, roles, emittedAuthCollections, currentUser, search>>
    /\ UNCHANGED <<projectVars, viewVars, namingVars, validatorVars, genVars, pagingVars>>

RevokeRoles ==
    /\ changeRoles("revokeRoles")
    /\ settled' = settledCall(lastCall', error')
    /\ UNCHANGED <<collectionName, roles, emittedAuthCollections, currentUser, search>>
    /\ UNCHANGED <<projectVars, viewVars, namingVars, validatorVars, genVars, pagingVars>>

StoreRolesNext == StoreRemove \/ AssignRoles \/ RevokeRoles

(***************************************************************************)
(* Pagination: fetchInitialPage and fetchNextPage.                         *)
(*                                                                         *)
(* Documents are ordered by id on the sort field; the filter "odd" selects *)
(* the documents with an odd id.  An async call runs up to its next await  *)
(* in one step and is resumed, in any order, when the store answers.       *)
(***************************************************************************)
FallbackPageSize == 10

\* the object {} that the documented initial state holds in the filters slot
ObjectFilters == <<"{}">>
FilterChoices == {<<>>, <<"odd">>}
UndefinedFilters == <<"undefined">>

\* the options objects passed to fetchInitialPage: a page size (0: none) alone,
\* with the filter list [odd], or with an ascending sort
FetchOptions ==
    {[pageSize |-> n, filters |-> f, orderBy |-> "undefined"] :
        n \in 0..MaxPageSize, f \in {UndefinedFilters, <<"odd">>}}
    \cup {[pageSize |-> n, filters |-> UndefinedFilters, orderBy |-> "asc"] :
        n \in 0..MaxPageSize}

NotIterableMessage == "filters is not iterable"

matches(id, filter) == filter = "odd" => id % 2 = 1

\* the documents selected by the where clauses
matching(flt) == {id \in DOMAIN db : \A k \in 1..Len(flt) : matches(id, flt[k])}

\* orderBy(field, direction) followed by startAfter(cursor): the selected
\* documents after the cursor, in order (cursor 0: from the start)
RECURSIVE ordered(_, _)
ordered(ids, direction) ==
    IF ids = {} THEN <<>>
    ELSE LET first == IF direction = "asc"
                      THEN CHOOSE x \in ids : \A y \in ids : x <= y
                      ELSE CHOOSE x \in ids : \A y \in ids : x >= y
         IN <<first>> \o ordered(ids \ {first}, direction)

afterCursor(ids, direction, cursor) ==
    IF cursor = 0 THEN ids
    ELSE {id \in ids : IF direction = "asc" THEN id > cursor ELSE id < cursor}

\* getDocs(query(colRef, ...constraints)) with limit(lim)
getDocs(flt, direction, cursor, lim) ==
    LET all == ordered(afterCursor(matching(flt), direction, cursor), direction)
    IN SubSeq(all, 1, IF Len(all) < lim THEN Len(all) ELSE lim)

\* snapshot.docs[snapshot.docs.length - 1] || null
lastDocOrNull(rows) == IF rows = <<>> THEN 0 ELSE rows[Len(rows)]

\* a weaker early return that looks at the cursor only
nextPageReturnsEarlyWithoutCursor(cursor, more) == cursor = 0

\* the early return of fetchNextPage: !lastVisible || !hasMore
nextPageReturnsEarly(cursor, more) == cursor = 0 \/ ~more

FetchCall(op, pc, flt, direction, cursor, lim) ==
    [op |-> op, pc |-> pc, filters |-> flt, orderBy |-> direction, cursor |-> cursor,
     limit |-> lim]

\* the calls in flight with one more, respectively one less, call c
suspended(bag, c) == bag (+) SetToBag({c})
resumed(bag, c) == bag (-) SetToBag({c})

NoFetch == [op |-> "none", rows |-> 0, limit |-> 0]

PagingIdle ==
    /\ items = <<>>
    /\ lastVisible = 0
    /\ hasMore = TRUE
    /\ filters = <<>>
    /\ orderBy = "desc"
    /\ pageSize = 0
    /\ total = 0
    /\ loading = FALSE
    /\ inflight = EmptyBag
    /\ lastFetch = NoFetch
    /\ queries = 0
    /\ calls = 0

\* the documented initial state of a collection, with the largest page size of
\* the model for its default page size
PagingInit ==
    /\ items = <<>>
    /\ lastVisible = 0
    /\ hasMore = TRUE
    /\ filters \in {<<>>, ObjectFilters}
    /\ orderBy = "desc"
    /\ pageSize = MaxPageSize
    /\ total = 0
    /\ loading = FALSE
    /\ inflight = EmptyBag
    /\ lastFetch = NoFetch
    /\ queries = 0
    /\ calls = 0

\* fetchInitialPage(options), up to `await getDocs(q)`
invokeFetchInitialPage(options) ==
    /\ LET flt == IF options.filters # UndefinedFilters THEN options.filters ELSE filters
              sortConfig == IF options.orderBy # "undefined" THEN options.orderBy ELSE orderBy
              size == IF options.pageSize # 0 THEN options.pageSize
                      ELSE IF pageSize # 0 THEN pageSize ELSE FallbackPageSize
          IN IF flt = ObjectFilters
             THEN \* for (const filter of {}) throws; catch and finally run at once
                  /\ error' = NotIterableMessage
                  /\ loading' = FALSE
                  /\ settled' = Settled("fetchInitialPage", 0, FALSE, FALSE,
                                        NotIterableMessage, "undefined")
                  /\ UNCHANGED <<inflight, queries>>
             ELSE /\ loading' = TRUE
                  /\ inflight' = suspended(inflight,
                        FetchCall("fetchInitialPage", "getDocs", flt, sortConfig, 0, size))
                  /\ queries' = queries + 1
                  /\ UNCHANGED <<error, settled>>
    /\ lastCall' = Call("fetchInitialPage", 0, {}, {}, "called", FALSE)
    /\ UNCHANGED <<items, lastVisible, hasMore, orderBy, pageSize, total, lastFetch>>
    /\ UNCHANGED <<collectionName, roles, emittedAuthCollections, currentUser, db, search>>
    /\ UNCHANGED <<projectVars, viewVars, namingVars, validatorVars, genVars>>

\* one of at most MaxCalls calls, at most MaxInflight of them in flight
fetchInitialPage(options) ==
    /\ calls < MaxCalls
    /\ BagCardinality(inflight) < MaxInflight
    /\ invokeFetchInitialPage(options)
    /\ calls' = calls + 1

FetchInitialPage ==
    \E options \in FetchOptions :
        /\ fetchInitialPage(options)
        /\ UNCHANGED filters

\* applyFilters(filters): state.filters = filters; await this.fetchInitialPage({ filters })
ApplyFilters ==
    \E newFilters \in FilterChoices :
        /\ filters' = newFilters
        /\ fetchInitialPage([pageSize |-> 0, filters |-> newFilters, orderBy |-> "undefined"])

\* fetchInitialPage resumed after `await getDocs(q)`, up to `await getCountFromServer(q)`
InitialPageLoaded ==
    \E c \in BagToSet(inflight) :
        /\ c.op = "fetchInitialPage" /\ c.pc = "getDocs"
        /\ \E answered \in BOOLEAN :
              IF answered
              THEN LET rows == getDocs(c.filters, c.orderBy, 0, c.limit)
                   IN /\ items' = rows
                      /\ lastVisible' = lastDocOrNull(rows)
                      /\ hasMore' = (Len(rows) = c.limit)
                      /\ filters' = c.filters
                      /\ orderBy' = c.orderBy
                      /\ pageSize' = c.limit
                      /\ inflight' = suspended(resumed(inflight, c), [c EXCEPT !.pc = "count"])
                      /\ queries' = queries + 1
                      /\ lastFetch' = [op |-> c.op, rows |-> Len(rows), limit |-> c.limit]
                      /\ UNCHANGED <<loading, error, settled>>
              ELSE /\ error' = StoreErrorMessage
                   /\ loading' = FALSE
                   /\ inflight' = resumed(inflight, c)
                   /\ settled' = Settled(c.op, 0, FALSE, TRUE, StoreErrorMessage, "undefined")
                   /\ UNCHANGED <<items, lastVisible, hasMore, filters, orderBy, pageSize,
                                  queries, lastFetch>>
        /\ UNCHANGED <<total, calls, lastCall>>
        /\ UNCHANGED <<collectionName, roles, emittedAuthCollections, currentUser, db, search>>
        /\ UNCHANGED <<projectVars, viewVars, namingVars, validatorVars, genVars>>

\* fetchInitialPage resumed after `await getCountFromServer(q)`, to its end
InitialPageCounted ==
    \E c \in BagToSet(inflight) :
        /\ c.op = "fetchInitialPage" /\ c.pc = "count"
        /\ \E answered \in BOOLEAN :
              IF answered
              THEN /\ total' = Len(getDocs(c.filters, c.orderBy, 0, c.limit))
                   /\ settled' = Settled(c.op, 0, FALSE, FALSE, "none", "undefined")
                   /\ UNCHANGED error
              ELSE /\ error' = StoreErrorMessage
                   /\ settled' = Settled(c.op, 0, FALSE, TRUE, StoreErrorMessage, "undefined")
                   /\ UNCHANGED total
        /\ loading' = FALSE
        /\ inflight' = resumed(inflight, c)
        /\ UNCHANGED <<items, lastVisible, hasMore, filters, orderBy, pageSize, lastFetch,
                       queries, calls, lastCall>>
        /\ UNCHANGED <<collectionName, roles, emittedAuthCollections, currentUser, db, search>>
        /\ UNCHANGED <<projectVars, viewVars, namingVars, validatorVars, genVars>>

\* fetchNextPage(), up to its early return or to `await getDocs(q)`
invokeFetchNextPage ==
    /\ IF nextPageReturnsEarly(lastVisible, hasMore)
       THEN /\ lastCall' = [Call("fetchNextPage", 0, {}, {}, "returned", FALSE)
                               EXCEPT !.skipped = TRUE]
            /\ settled' = Settled("fetchNextPage", 0, FALSE, FALSE, "none", "undefined")
            /\ UNCHANGED <<loading, inflight, queries, error>>
       ELSE IF filters = ObjectFilters
       THEN /\ error' = NotIterableMessage
            /\ loading' = FALSE
            /\ lastCall' = Call("fetchNextPage", 0, {}, {}, "called", FALSE)
            /\ settled' = Settled("fetchNextPage", 0, FALSE, FALSE, NotIterableMessage,
                                  "undefined")
            /\ UNCHANGED <<inflight, queries>>
       ELSE /\ loading' = TRUE
            /\ inflight' = suspended(inflight,
                  FetchCall("fetchNextPage", "getDocs", filters, orderBy, lastVisible, pageSize))
            /\ queries' = queries + 1
            /\ lastCall' = Call("fetchNextPage", 0, {}, {}, "called", FALSE)
            /\ UNCHANGED <<error, settled>>
    /\ UNCHANGED <<items, lastVisible, hasMore, filters, orderBy, pageSize, total, lastFetch>>
    /\ UNCHANGED <<collectionName, roles, emittedAuthCollections, currentUser, db, search>>
    /\ UNCHANGED <<projectVars, viewVars, namingVars, validatorVars, genVars>>

\* one of at most MaxCalls calls, at most MaxInflight of them in flight
FetchNextPage ==
    /\ calls < MaxCalls
    /\ BagCardinality(inflight) < MaxInflight
    /\ invokeFetchNextPage
    /\ calls' = calls + 1

\* fetchNextPage resumed after `await getDocs(q)`, to its end
NextPageLoaded ==
    \E c \in BagToSet(inflight) :
        /\ c.op = "fetchNextPage"
        /\ \E answered \in BOOLEAN :
              IF answered
              THEN LET rows == getDocs(c.filters, c.orderBy, c.cursor, c.limit)
                   IN /\ items' = items \o rows
                      /\ lastVisible' = lastDocOrNull(rows)
                      /\ hasMore' = (Len(rows) = pageSize)
                      /\ lastFetch' = [op |-> c.op, rows |-> Len(rows), limit |-> c.limit]
                      /\ settled' = Settled(c.op, 0, FALSE, FALSE, "none", "undefined")
                      /\ UNCHANGED error
              ELSE /\ error' = StoreErrorMessage
                   /\ settled' = Settled(c.op, 0, FALSE, TRUE, StoreErrorMessage, "undefined")
                   /\ UNCHANGED <<items, lastVisible, hasMore, lastFetch>>
        /\ loading' = FALSE
        /\ inflight' = resumed(inflight, c)
        /\ UNCHANGED <<filters, orderBy, pageSize, total, queries, calls, lastCall>>
        /\ UNCHANGED <<collectionName, roles, emittedAuthCollections, currentUser, db, search>>
        /\ UNCHANGED <<projectVars, viewVars, namingVars, validatorVars, genVars>>

\* the state a fetchInitialPage with a filter list and a page size leaves behind
\* once both of its queries were answered
FirstPageLoaded ==
    \E flt \in FilterChoices, direction \in {"asc", "desc"}, size \in 1..MaxPageSize :
        LET rows == getDocs(flt, direction, 0, size)
        IN /\ items = rows
           /\ lastVisible = lastDocOrNull(rows)
           /\ hasMore = (Len(rows) = size)
           /\ filters = flt
           /\ orderBy = direction
           /\ pageSize = size
           /\ total = Len(rows)
           /\ loading = FALSE
           /\ inflight = EmptyBag
           /\ lastFetch = [op |-> "fetchInitialPage", rows |-> Len(rows), limit |-> size]
           /\ queries = 2
           /\ calls = 1

\* A caller that pages through the collection: fetchInitialPage once, then
\* fetchNextPage again and again, each call awaited before the next, against
\* a store that answers every query.  calls stops counting at MaxCalls.
PageFirst ==
    /\ calls = 0
    /\ inflight = EmptyBag
    /\ \E options \in FetchOptions :
          /\ invokeFetchInitialPage(options)
          /\ UNCHANGED filters
    /\ calls' = 1

PageNext ==
    /\ calls >= 1
    /\ inflight = EmptyBag
    /\ invokeFetchNextPage
    /\ calls' = IF calls < MaxCalls THEN calls + 1 ELSE calls

FirstPageAnswered == InitialPageLoaded /\ ~settled'.rejected
FirstPageCountAnswered == InitialPageCounted /\ ~settled'.rejected
NextPageAnswered == NextPageLoaded /\ ~settled'.rejected

PageThroughNext ==
    \/ PageFirst
    \/ FirstPageAnswered
    \/ FirstPageCountAnswered
    \/ PageNext
    \/ NextPageAnswered

\* the caller goes on calling and the store goes on answering
PageThroughFairness ==
    /\ WF_vars(PageFirst)
    /\ WF_vars(FirstPageAnswered)
    /\ WF_vars(FirstPageCountAnswered)
    /\ WF_vars(PageNext)
    /\ WF_vars(NextPageAnswered)

\* fetchNextPage calls only, overlapping
NextPageOverlapNext == FetchNextPage \/ NextPageLoaded

StorePagingNext ==
    \/ FetchInitialPage
    \/ InitialPageLoaded
    \/ InitialPageCounted
    \/ FetchNextPage
    \/ NextPageLoaded

(***************************************************************************)
(* get, add, update and search.  Each suspends at one await of a store     *)
(* call and is resumed when the store answers or rejects.                  *)
(***************************************************************************)
\* a call suspended at its store call
StoreCall(op, id, term, flt) ==
    [op |-> op, pc |-> "store", id |-> id, term |-> term, filters |-> flt]

\* the error a rejecting store call rejects with
StoreError == [message |-> StoreErrorMessage]

\* a catch block that records the message and throws an error of its own
catchAndWrap(err) == [slot |-> err.message, thrown |-> "Operation failed"]

\* catch (error) { state.error.value = error.message; throw error; }
catchAndRethrow(err) == [slot |-> err.message, thrown |-> err.message]

\* the earlier get: a missing document is an error
getResultOrThrow(exists) ==
    IF exists THEN [thrown |-> "none", value |-> "record"]
    ELSE [thrown |-> "Document not found", value |-> "undefined"]

\* get after `await getDoc(docRef)`: null when !docSnap.exists(), else the record
getResult(exists) ==
    IF exists THEN [thrown |-> "none", value |-> "record"]
    ELSE [thrown |-> "none", value |-> "null"]

\* get(id), up to `await getDoc(docRef)`
Get ==
    /\ calls < MaxCalls
    /\ BagCardinality(inflight) < MaxInflight
    /\ \E id \in 1..MaxDocs :
          inflight' = suspended(inflight, StoreCall("get", id, <<>>, <<>>))
    /\ queries' = queries + 1
    /\ calls' = calls + 1
    /\ UNCHANGED <<items, lastVisible, hasMore, filters, orderBy, pageSize, total, loading,
                   lastFetch>>
    /\ UNCHANGED <<collectionName, roles, emittedAuthCollections, currentUser, db, error,
                   lastCall>>
    /\ UNCHANGED <<projectVars, viewVars, namingVars, validatorVars, genVars, crudVars>>

\* get resumed after `await getDoc(docRef)`
GetAnswered ==
    \E c \in BagToSet(inflight) :
        /\ c.op = "get"
        /\ \E answered \in BOOLEAN :
              IF answered
              THEN LET exists == c.id \in DOMAIN db
                       r == getResult(exists)
                   IN /\ settled' = Settled("get", c.id, exists, FALSE, r.thrown, r.value)
                      /\ UNCHANGED error
              ELSE LET e == catchAndRethrow(StoreError)
                   IN /\ error' = e.slot
                      /\ settled' = Settled("get", c.id, c.id \in DOMAIN db, TRUE, e.thrown,
                                            "undefined")
        /\ inflight' = resumed(inflight, c)
        /\ UNCHANGED <<items, lastVisible, hasMore, filters, orderBy, pageSize, total, loading,
                       lastFetch, queries, calls>>
        /\ UNCHANGED <<collectionName, roles, emittedAuthCollections, currentUser, db, lastCall,
                       search>>
        /\ UNCHANGED <<projectVars, viewVars, namingVars, validatorVars, genVars>>

\* the name field of the documents of the collection
docName(id) ==
    CASE id = 1 -> <<"a", "b">>
      [] id = 2 -> <<"A", "b">>
      [] id = 3 -> <<"a", "b", "c">>
      [] OTHER -> <<"b">>

\* the terms passed to search
SearchTerms == {<<"a", "b">>, <<"A", "b">>}

\* '\uf8ff', the character appended to the term for the upper end of the range
HighSentinel == "\\uf8ff"

\* the UTF-16 code unit of a character
charCode(c) ==
    CASE c = "A" -> 65
      [] c = "a" -> 97
      [] c = "b" -> 98
      [] c = "c" -> 99
      [] c = HighSentinel -> 63743
      [] OTHER -> 0

\* s <= t in the store's string order
RECURSIVE stringLessOrEqual(_, _)
stringLessOrEqual(s, t) ==
    IF s = <<>> THEN TRUE
    ELSE IF t = <<>> THEN FALSE
    ELSE IF charCode(Head(s)) # charCode(Head(t)) THEN charCode(Head(s)) < charCode(Head(t))
    ELSE stringLessOrEqual(Tail(s), Tail(t))

\* a search that bounds the range by the term as given
searchConstraintsAsGiven(term) ==
    [from |-> term, to |-> term \o <<HighSentinel>>]

\* where(field, '>=', term.toLowerCase()), where(field, '<=', term.toLowerCase() + '\uf8ff')
searchConstraints(term) ==
    [from |-> toLowerCase(term), to |-> toLowerCase(term) \o <<HighSentinel>>]

\* getDocs of the search query: the range on the name field and the stored
\* filters (none of which is on the name field), in ascending order
searchDocs(range, flt) ==
    ordered({id \in matching(flt) : /\ stringLessOrEqual(range.from, docName(id))
                                    /\ stringLessOrEqual(docName(id), range.to)}, "asc")

\* the smallest identifier without a document: the one addDoc creates
freeIds == (1..MaxDocs) \ DOMAIN db
newDocId == CHOOSE id \in freeIds : \A other \in freeIds : id <= other

\* add(data)
Add ==
    /\ calls < MaxCalls
    /\ freeIds # {}
    /\ \E added \in BOOLEAN :
          IF added
          THEN /\ db' = [id \in DOMAIN db \cup {newDocId} |->
                            IF id = newDocId THEN {} ELSE db[id]]
               /\ settled' = Settled("add", newDocId, FALSE, FALSE, "none", "id")
               /\ UNCHANGED error
          ELSE LET e == catchAndRethrow(StoreError)
               IN /\ error' = e.slot
                  /\ settled' = Settled("add", 0, FALSE, TRUE, e.thrown, "undefined")
                  /\ UNCHANGED db
    /\ queries' = queries + 1
    /\ calls' = calls + 1
    /\ UNCHANGED <<items, lastVisible, hasMore, filters, orderBy, pageSize, total, loading,
                   inflight, lastFetch>>
    /\ UNCHANGED <<collectionName, roles, emittedAuthCollections, currentUser, lastCall,
                   search>>
    /\ UNCHANGED <<projectVars, viewVars, namingVars, validatorVars, genVars>>

\* update(id, data); updateDoc rejects for an identifier without a document
Update ==
    /\ calls < MaxCalls
    /\ \E id \in 1..MaxDocs :
          \E updated \in {id \in DOMAIN db, FALSE} :
             IF updated
             THEN /\ settled' = Settled("update", id, TRUE, FALSE, "none", "undefined")
                  /\ UNCHANGED error
             ELSE LET e == catchAndRethrow(StoreError)
                  IN /\ error' = e.slot
                     /\ settled' = Settled("update", id, id \in DOMAIN db, TRUE, e.thrown,
                                           "undefined")
    /\ queries' = queries + 1
    /\ calls' = calls + 1
    /\ UNCHANGED <<items, lastVisible, hasMore, filters, orderBy, pageSize, total, loading,
                   inflight, lastFetch>>
    /\ UNCHANGED <<collectionName, roles, emittedAuthCollections, currentUser, db, lastCall,
                   search>>
    /\ UNCHANGED <<projectVars, viewVars, namingVars, validatorVars, genVars>>

\* search(term) on the default field 'name', up to `await Promise.all(searchPromises)`
Search ==
    /\ calls < MaxCalls
    /\ BagCardinality(inflight) < MaxInflight
    /\ \E term \in SearchTerms :
          /\ search' = [term |-> term, results |-> <<>>, isActive |-> TRUE]
          /\ IF filters = ObjectFilters
             THEN /\ error' = NotIterableMessage
                  /\ loading' = FALSE
                  /\ settled' = Settled("search", 0, FALSE, FALSE, NotIterableMessage,
                                        "undefined")
                  /\ UNCHANGED <<inflight, queries>>
             ELSE /\ loading' = TRUE
                  /\ inflight' = suspended(inflight, StoreCall("search", 0, term, filters))
                  /\ queries' = queries + 1
                  /\ UNCHANGED <<error, settled>>
    /\ calls' = calls + 1
    /\ UNCHANGED <<items, lastVisible, hasMore, filters, orderBy, pageSize, total, lastFetch>>
    /\ UNCHANGED <<collectionName, roles, emittedAuthCollections, currentUser, db, lastCall>>
    /\ UNCHANGED <<projectVars, viewVars, namingVars, validatorVars, genVars>>

\* search resumed after `await Promise.all(searchPromises)`, to its end
SearchAnswered ==
    \E c \in BagToSet(inflight) :
        /\ c.op = "search"
        /\ \E answered \in BOOLEAN :
              IF answered
              THEN /\ search' = [search EXCEPT
                                    !.results = searchDocs(searchConstraints(c.term), c.filters)]
                   /\ settled' = Settled("search", 0, FALSE, FALSE, "none", "undefined")
                   /\ UNCHANGED error
              ELSE LET e == catchAndRethrow(StoreError)
                   IN /\ error' = e.slot
                      /\ settled' = Settled("search", 0, FALSE, TRUE, e.thrown, "undefined")
                      /\ UNCHANGED search
        /\ loading' = FALSE
        /\ inflight' = resumed(inflight, c)
        /\ UNCHANGED <<items, lastVisible, hasMore, filters, orderBy, pageSize, total,
                       lastFetch, queries, calls>>
        /\ UNCHANGED <<collectionName, roles, emittedAuthCollections, currentUser, db, lastCall>>
        /\ UNCHANGED <<projectVars, viewVars, namingVars, validatorVars, genVars>>

StoreCrudNext ==
    \/ Get
    \/ GetAnswered
    \/ Add
    \/ Update
    \/ Search
    \/ SearchAnswered
    \/ StoreRemove
    \/ ApplyFilters
    \/ InitialPageLoaded
    \/ InitialPageCounted
    \/ FetchNextPage
    \/ NextPageLoaded

(***************************************************************************)
(* The emitted auth actions (generateIndexFile): login, signUp, logout,    *)
(* sendPasswordReset, updateProfile and changePassword.  Each awaits the   *)
(* auth provider inside one try block; a failure is an error object with a *)
(* code and a message.                                                     *)
(***************************************************************************)
AuthOps == {"login", "signUp", "logout", "sendPasswordReset", "updateProfile",
            "changePassword"}

\* the codes of the errors the provider rejects with ("undefined": no code)
AuthErrorCodes ==
    {"auth/user-not-found", "auth/wrong-password", "auth/too-many-requests",
     "auth/user-disabled", "auth/email-already-in-use", "auth/invalid-email",
     "auth/weak-password", "auth/operation-not-allowed", "auth/requires-recent-login",
     "auth/network-request-failed", "undefined"}

\* error.message of such an error: a text, or the empty string
RawMessages == {"raw failure message", ""}

AuthError(code, message) == [code |-> code, message |-> message]

\* the switch (error.code) of login
loginErrorMessage(err) ==
    CASE err.code = "auth/user-not-found" -> "No user found with this email"
      [] err.code = "auth/wrong-password" -> "Incorrect password"
      [] err.code = "auth/too-many-requests" -> "Too many attempts. Account temporarily locked"
      [] err.code = "auth/user-disabled" -> "This account has been disabled"
      [] OTHER -> IF err.message # "" THEN err.message ELSE "Authentication error"

\* the switch (error.code) of signUp
signUpErrorMessage(err) ==
    CASE err.code = "auth/email-already-in-use" -> "Email already registered"
      [] err.code = "auth/invalid-email" -> "Invalid email address"
      [] err.code = "auth/weak-password" -> "Password is too weak"
      [] err.code = "auth/operation-not-allowed" -> "Account creation is disabled"
      [] OTHER -> IF err.message # "" THEN err.message ELSE "Registration error"

\* the switch (error.code) of changePassword, which has no default case
changePasswordErrorMessage(err) ==
    CASE err.code = "auth/wrong-password" -> "Current password is incorrect"
      [] err.code = "auth/requires-recent-login" -> "Session expired. Please log in again"
      [] err.code = "auth/weak-password" -> "New password is too weak"
      [] OTHER -> "Password change failed"

\* the catch block of an auth action: what it stores in state.error.value and
\* the code and message of the object it throws
authCatch(op, err) ==
    CASE op = "login" ->
            [slot |-> loginErrorMessage(err), code |-> err.code,
             message |-> loginErrorMessage(err)]
      [] op = "signUp" ->
            [slot |-> signUpErrorMessage(err), code |-> err.code,
             message |-> signUpErrorMessage(err)]
      [] op = "changePassword" ->
            [slot |-> changePasswordErrorMessage(err), code |-> err.code,
             message |-> changePasswordErrorMessage(err)]
      [] op = "logout" ->
            [slot |-> err.message, code |-> "auth/logout-failed", message |-> "Logout failed"]
      [] op = "sendPasswordReset" ->
            [slot |-> err.message, code |-> "auth/reset-failed",
             message |-> "Password reset failed"]
      [] OTHER ->
            [slot |-> err.message, code |-> "auth/profile-update-failed",
             message |-> "Profile update failed"]

AuthCall(pc, op, err, thrown, slot) ==
    [pc |-> pc, op |-> op, code |-> err.code, raw |-> err.message, thrown |-> thrown,
     slot |-> slot]

NoAuthError == AuthError("none", "none")

AuthIdle == authOp = AuthCall("idle", "none", NoAuthError, "none", "none")

\* an auth action is invoked and runs up to its first await; login and signUp
\* clear state.error.value first
AuthInvoked ==
    /\ authOp.pc # "awaiting"
    /\ \E op \in AuthOps :
          authOp' = AuthCall("awaiting", op, NoAuthError, "none",
                           IF op \in {"login", "signUp"} THEN "null" ELSE authOp.slot)
    /\ UNCHANGED <<form>>
    /\ UNCHANGED <<projectVars, namingVars, validatorVars, genVars, storeVars, pagingVars, crudVars>>

\* the awaited calls of the action all resolve: it returns { success: true, ... }
AuthSucceeded ==
    /\ authOp.pc = "awaiting"
    /\ authOp' = [authOp EXCEPT !.pc = "returned"]
    /\ UNCHANGED <<form>>
    /\ UNCHANGED <<projectVars, namingVars, validatorVars, genVars, storeVars, pagingVars, crudVars>>

\* an awaited call rejects: the catch block runs
AuthFailed ==
    /\ authOp.pc = "awaiting"
    /\ \E code \in AuthErrorCodes, message \in RawMessages :
          LET err == AuthError(code, message)
              caught == authCatch(authOp.op, err)
          IN authOp' = AuthCall("failed", authOp.op, err, caught.message, caught.slot)
    /\ UNCHANGED <<form>>
    /\ UNCHANGED <<projectVars, namingVars, validatorVars, genVars, storeVars, pagingVars, crudVars>>

AuthNext == AuthInvoked \/ AuthSucceeded \/ AuthFailed

FormIdle == form = [pc |-> "idle"]

ViewIdle == AuthIdle /\ FormIdle

NavIdle == nav = [pc |-> "idle"]
RegenIdle == clock = 0 /\ written = <<>>
ProjectIdle == RegenIdle /\ NavIdle

(***************************************************************************)
(* The create forms: Create.vue of generateFormComponents and Create.vue   *)
(* of generateCreateView.  A form is generated for a list of field types   *)
(* and, once mounted, holds one initial value per field.                   *)
(***************************************************************************)
CreateGenerators == {"generateFormComponents", "generateCreateView"}

\* getDefaultFieldValue(fieldType): the text of the initial value
getDefaultFieldValue(fieldType) ==
    CASE fieldType \in {"string", "email", "timestamp"} -> "''"
      [] fieldType = "number" -> "0"
      [] fieldType = "boolean" -> "false"
      [] fieldType = "array" -> "[]"
      [] fieldType = "object" -> "{}"
      [] OTHER -> "''"

\* formFieldsObj of generateCreateView:
\* f.type === "number" ? 0 : f.type === "boolean" ? false : "''"
formFieldsObjValue(fieldType) ==
    IF fieldType = "number" THEN "0"
    ELSE IF fieldType = "boolean" THEN "false"
    ELSE "''"

\* const form = ref({ ... }) of the Create.vue a generator emits
initialFormValues(generator, fields) ==
    [i \in 1..Len(fields) |->
        IF generator = "generateFormComponents"
        THEN getDefaultFieldValue(fields[i])
        ELSE formFieldsObjValue(fields[i])]

CreateFormInit ==
    \E generator \in CreateGenerators, fields \in SeqsUpTo(FieldTypes, MaxFields) :
        form = [pc |-> "generated", generator |-> generator, fields |-> fields,
                values |-> <<>>]

\* the emitted Create.vue is mounted: its script setup runs
MountCreateForm ==
    /\ form.pc = "generated"
    /\ form' = [form EXCEPT !.pc = "mounted",
                            !.values = initialFormValues(form.generator, form.fields)]
    /\ UNCHANGED <<authOp>>
    /\ UNCHANGED <<projectVars, namingVars, validatorVars, genVars, storeVars, pagingVars, crudVars>>

CreateFormNext == MountCreateForm

(***************************************************************************)
(* An array field of Edit.vue: the stored array is shown as text when the  *)
(* document is loaded, and the text is parsed back when the form is        *)
(* submitted.  An element is a string, a string a sequence of characters.  *)
(***************************************************************************)
ElementAlphabet == {"a", " "}
StoredArrays == SeqsUpTo(SeqsUpTo(ElementAlphabet, MaxElementLen), MaxElements)

\* array.join(', ')
RECURSIVE join(_)
join(array) ==
    IF array = <<>> THEN <<>>
    ELSE IF Len(array) = 1 THEN array[1]
    ELSE array[1] \o <<",", " ">> \o join(Tail(array))

\* string.split(',')
RECURSIVE split(_)
split(string) ==
    IF \A i \in 1..Len(string) : string[i] # "," THEN <<string>>
    ELSE LET k == CHOOSE i \in 1..Len(string) :
                      string[i] = "," /\ \A j \in 1..(i - 1) : string[j] # ","
         IN <<SubSeq(string, 1, k - 1)>> \o split(SubSeq(string, k + 1, Len(string)))

\* on load: fetchedData.f ? fetchedData.f.join(', ') : ''   (an array is truthy)
arrayToText(array) == join(array)

\* on submit: if (form.value.fString) split(',').map(s => s.trim()) else []
textToArray(text) ==
    IF text # <<>>
    THEN LET pieces == split(text) IN [i \in 1..Len(pieces) |-> trim(pieces[i])]
    ELSE <<>>

ArrayFieldInit ==
    \E array \in StoredArrays :
        form = [pc |-> "fetched", stored |-> array, text |-> <<>>, parsed |-> <<>>]

\* onMounted, after the document was fetched: the array field's text is set
LoadArrayField ==
    /\ form.pc = "fetched"
    /\ form' = [form EXCEPT !.pc = "loaded", !.text = arrayToText(form.stored)]
    /\ UNCHANGED <<authOp>>
    /\ UNCHANGED <<projectVars, namingVars, validatorVars, genVars, storeVars, pagingVars, crudVars>>

\* handleSubmit, the array field's parsing of the unedited text
SubmitArrayField ==
    /\ form.pc = "loaded"
    /\ form' = [form EXCEPT !.pc = "parsed", !.parsed = textToArray(form.text)]
    /\ UNCHANGED <<authOp>>
    /\ UNCHANGED <<projectVars, namingVars, validatorVars, genVars, storeVars, pagingVars, crudVars>>

ArrayFieldNext == LoadArrayField \/ SubmitArrayField

(***************************************************************************)
(* handleSubmit of Create.vue and Edit.vue (generateFormComponents).  The  *)
(* text of an object field is "empty", "valid" (JSON.parse returns) or     *)
(* "invalid" (JSON.parse throws); the other fields have the text "none".   *)
(* handleSubmit runs to its first await in one step and is resumed when    *)
(* the validator, then the store, answers.                                 *)
(***************************************************************************)
FormKinds == {"create", "edit"}
JsonTexts == {"empty", "valid", "invalid"}

\* the texts a user can have typed into the fields of a form
FormTexts(fields) ==
    {texts \in [1..Len(fields) -> JsonTexts \cup {"none"}] :
        \A i \in 1..Len(fields) : (fields[i] = "object") <=> (texts[i] \in JsonTexts)}

\* a submit that parses nothing
noInvalidJson(fields, texts) == 0

\* the first object field whose non-empty text JSON.parse rejects (0: none):
\* the parsing blocks run in field order and the first catch returns
firstInvalidJson(fields, texts) ==
    LET failing == {i \in 1..Len(fields) : fields[i] = "object" /\ texts[i] = "invalid"}
    IN IF failing = {} THEN 0 ELSE CHOOSE i \in failing : \A j \in failing : i <= j

\* notification.error('Invalid JSON for <field>.')
InvalidJsonMessage(i) == [kind |-> "invalidJson", field |-> i]
ValidationMessage == [kind |-> "validation", field |-> 0]
StoreFailureMessage == [kind |-> "storeFailure", field |-> 0]

SubmitFormInit ==
    \E kind \in FormKinds, fields \in SeqsUpTo(FieldTypes, MaxFields) :
        \E texts \in FormTexts(fields) :
            form = [pc |-> "ready", kind |-> kind, fields |-> fields, texts |-> texts,
                    isLoading |-> FALSE, notified |-> <<>>, validatorCalls |-> 0,
                    storeCalls |-> 0]

\* handleSubmit, up to its return in a catch block of the parsing or to
\* `await validate<Collection>(form.value)`
HandleSubmit ==
    /\ form.pc \in {"ready", "invalid", "failed"}
    /\ LET blocking == firstInvalidJson(form.fields, form.texts)
       IN IF blocking # 0
          THEN form' = [form EXCEPT !.pc = "blocked", !.isLoading = TRUE,
                                    !.notified = <<InvalidJsonMessage(blocking)>>,
                                    !.validatorCalls = 0, !.storeCalls = 0]
          ELSE form' = [form EXCEPT !.pc = "validating", !.isLoading = TRUE,
                                    !.notified = <<>>,
                                    !.validatorCalls = 1, !.storeCalls = 0]
    /\ UNCHANGED <<authOp>>
    /\ UNCHANGED <<projectVars, namingVars, validatorVars, genVars, storeVars, pagingVars, crudVars>>

\* handleSubmit resumed with the validator's errors, up to its return or to
\* `await store.add<Collection>(...)` / `await store.update<Collection>(...)`
SubmitValidated ==
    /\ form.pc = "validating"
    /\ \E hasErrors \in BOOLEAN :
          IF hasErrors
          THEN form' = [form EXCEPT !.pc = "invalid", !.isLoading = FALSE,
                                    !.notified = <<ValidationMessage>>]
          ELSE form' = [form EXCEPT !.pc = "saving", !.storeCalls = 1]
    /\ UNCHANGED <<authOp>>
    /\ UNCHANGED <<projectVars, namingVars, validatorVars, genVars, storeVars, pagingVars, crudVars>>

\* handleSubmit resumed after the store's add or update, to its end
SubmitSaved ==
    /\ form.pc = "saving"
    /\ \E saved \in BOOLEAN :
          IF saved
          THEN form' = [form EXCEPT !.pc = "saved", !.isLoading = FALSE]
          ELSE form' = [form EXCEPT !.pc = "failed", !.isLoading = FALSE,
                                    !.notified = <<StoreFailureMessage>>]
    /\ UNCHANGED <<authOp>>
    /\ UNCHANGED <<projectVars, namingVars, validatorVars, genVars, storeVars, pagingVars, crudVars>>

SubmitFormNext == HandleSubmit \/ SubmitValidated \/ SubmitSaved

(***************************************************************************)
(* The create forms of the repository paired with its validators.          *)
(* generateFormComponents and generateCreateView emit a handleSubmit;      *)
(* generateValidationModule emits an async validate<Collection> that       *)
(* resolves to the array of messages, generateValidator (generateModel) a  *)
(* validate<Collection> that returns { success, errors }.  A JavaScript    *)
(* value is [type, n]: n is the number of errors it carries.               *)
(***************************************************************************)
FormGenerators == {"generateFormComponents", "generateCreateView"}
ValidatorGenerators == {"generateValidationModule", "generateValidator"}

\* what validate<Collection>(form.value) returns when the data has n errors
validatorReturn(validatorGenerator, n) ==
    IF validatorGenerator = "generateValidationModule"
    THEN [type |-> "promise", n |-> n]
    ELSE [type |-> "object", n |-> n]

\* await v
awaited(v) == IF v.type = "promise" THEN [type |-> "array", n |-> v.n] ELSE v

\* v.length > 0: only an array has a length, undefined > 0 is false
lengthAboveZero(v) == v.type = "array" /\ v.n > 0

\* if (v.length): undefined is falsy
lengthTruthy(v) == v.type = "array" /\ v.n # 0

\* if (validationErrors.length > 0) of generateFormComponents
formComponentsRejects(v) == lengthAboveZero(v)

\* if (errors.length) of generateCreateView
createViewRejects(v) == lengthTruthy(v)

PairInit ==
    \E f \in FormGenerators, v \in ValidatorGenerators :
        form = [pc |-> "ready", formGenerator |-> f, validatorGenerator |-> v,
                returned |-> [type |-> "none", n |-> 0], submits |-> 0, storeCalls |-> 0]

\* handleSubmit up to its first await: generateFormComponents awaits the
\* validator, generateCreateView tests what the validator returned and
\* awaits store.add
PairSubmit ==
    /\ form.pc \in {"ready", "rejected", "saved", "failed"}
    /\ form.submits < MaxSubmits
    /\ \E n \in 0..MaxErrors :
          LET v == validatorReturn(form.validatorGenerator, n)
          IN IF form.formGenerator = "generateFormComponents"
             THEN form' = [form EXCEPT !.pc = "validating", !.returned = v,
                                       !.submits = @ + 1]
             ELSE IF createViewRejects(v)
                  THEN form' = [form EXCEPT !.pc = "rejected", !.returned = v,
                                            !.submits = @ + 1]
                  ELSE form' = [form EXCEPT !.pc = "saving", !.returned = v,
                                            !.submits = @ + 1, !.storeCalls = @ + 1]
    /\ UNCHANGED <<authOp>>
    /\ UNCHANGED <<projectVars, namingVars, validatorVars, genVars, storeVars, pagingVars, crudVars>>

\* handleSubmit of generateFormComponents resumed with the awaited value
PairValidated ==
    /\ form.pc = "validating"
    /\ IF formComponentsRejects(awaited(form.returned))
       THEN form' = [form EXCEPT !.pc = "rejected"]
       ELSE form' = [form EXCEPT !.pc = "saving", !.storeCalls = @ + 1]
    /\ UNCHANGED <<authOp>>
    /\ UNCHANGED <<projectVars, namingVars, validatorVars, genVars, storeVars, pagingVars, crudVars>>

\* handleSubmit resumed after store.add<Collection>
PairSaved ==
    /\ form.pc = "saving"
    /\ \E saved \in BOOLEAN : form' = [form EXCEPT !.pc = IF saved THEN "saved" ELSE "failed"]
    /\ UNCHANGED <<authOp>>
    /\ UNCHANGED <<projectVars, namingVars, validatorVars, genVars, storeVars, pagingVars, crudVars>>

PairNext == PairSubmit \/ PairValidated \/ PairSaved

(***************************************************************************)
(* Regeneration: the generators run again on the same schema and options.  *)
(* A file text is the record of everything the template interpolates.      *)
(***************************************************************************)
\* new Date().toISOString(): the date and the time to the millisecond
toISOString(ms) == [minute |-> ms \div MsPerMinute, ms |-> ms % MsPerMinute]

\* new Date().toLocaleDateString('en-US', {year, month, day, hour, minute}):
\* the date and the time to the minute
toLocaleDateString(ms) == [minute |-> ms \div MsPerMinute]

\* content of generateRouter: the @created stamp, the flags and routesString
routerContent(a, collections, now) ==
    [created |-> toISOString(now), enableAuth |-> a.enableAuth,
     enableAdmin |-> a.enableAdmin, routes |-> buildRoutes(a, collections)]

\* the text of validate<Name>.js
validationModuleContent(c) == [name |-> capitalize(c.name), fields |-> c.fields]

\* the texts of Create.vue and Edit.vue of a raw collection
formComponentContent(c) == [name |-> toPascalCase(c.name), fields |-> c.fields]

\* the text of useFirestoreCollectionActions.js
firestoreUtilContent(authC) == [authCollections |-> namesOf(authC)]

\* the text of STORE_GUIDE.md of generateDocumentation
documentationContent(processed, now) ==
    [generatedDate |-> toLocaleDateString(now), collections |-> namesOf(processed)]

\* one run of init() at time now: the texts it writes
generate(collections, a, now) ==
    LET processed == processCollections(collections)
    IN [router |-> routerContent(a, collections, now),
        validators |-> [k \in 1..Len(processed) |-> validationModuleContent(processed[k])],
        views |-> [i \in 1..Len(collections) |-> formComponentContent(collections[i])],
        persistence |-> firestoreUtilContent(SelectSeq(processed, isAuthCollection)),
        guide |-> documentationContent(processed, now)]

\* a schema generateStore accepts, and the feature flags
RegenInit ==
    /\ rawCollections \in SeqsUpTo(RawCollectionChoices, MaxCollections)
    /\ Len(rawCollections) > 0
    /\ \A i \in 1..Len(rawCollections) : ~missingNameOrFields(rawCollections[i])
    /\ answers \in AnswerChoices
    /\ gpc = "idle"
    /\ processedCollections = <<>>
    /\ authCollections = <<>>
    /\ artifacts = {}
    /\ routes = <<>>
    /\ clock \in 0..MaxClock
    /\ written = <<>>

\* a millisecond passes
Tick ==
    /\ clock < MaxClock
    /\ clock' = clock + 1
    /\ UNCHANGED <<written, nav>>
    /\ UNCHANGED <<viewVars, namingVars, validatorVars, genVars, storeVars, pagingVars, crudVars>>

\* init() runs on the schema
Regenerate ==
    /\ Len(written) < MaxRuns
    /\ written' = Append(written, generate(rawCollections, answers, clock))
    /\ UNCHANGED <<clock, nav>>
    /\ UNCHANGED <<viewVars, namingVars, validatorVars, genVars, storeVars, pagingVars, crudVars>>

RegenNext == Tick \/ Regenerate

(***************************************************************************)
(* Navigation in the generated project: the routes of router/index.js and  *)
(* authGuard of generateAuth, installed with router.beforeEach when        *)
(* enableAuth is set.  A location is the path of a route, named by the     *)
(* route's kind and collection; "Nowhere" is a path only the catch-all     *)
(* record matches.                                                         *)
(***************************************************************************)
Location(kind, col) == [kind |-> kind, col |-> col]

StaticKinds ==
    {"Home", "Login", "Register", "ForgotPassword", "ResetPassword", "VerifyEmail",
     "Unauthorized", "Account", "Settings", "AdminDashboard", "AdminUsers", "Nowhere"}

\* the paths a navigation can ask for
NavTargets ==
    {Location(k, <<>>) : k \in StaticKinds}
    \cup {Location(routes[i].kind, routes[i].col) :
             i \in {j \in 1..Len(routes) : routes[j].of # 0}}

\* the record that matches a location, the catch-all record aside (0: none)
matchRoute(to) ==
    LET hits == {i \in 1..Len(routes) :
                    /\ routes[i].kind # "CatchAll"
                    /\ routes[i].kind = to.kind
                    /\ routes[i].col = to.col}
    IN IF hits = {} THEN 0 ELSE CHOOSE i \in hits : \A j \in hits : i <= j

\* authGuard(to, from, next): what it passes to next
authGuard(meta, user) ==
    IF meta.requiresAuth /\ ~user THEN "/login"
    ELSE IF meta.guestOnly /\ user THEN "/"
    ELSE "next"

\* a completed run of init() on a schema generateStore accepts; the prompts
\* ask for enableAuth only with an auth collection in the schema, and for
\* enableAuthViews only with enableAuth
NavInit ==
    /\ rawCollections \in SeqsUpTo(RawCollectionChoices, MaxCollections)
    /\ Len(rawCollections) > 0
    /\ \A i \in 1..Len(rawCollections) : ~missingNameOrFields(rawCollections[i])
    /\ answers \in AnswerChoices
    /\ answers.enableAuth => \E i \in 1..Len(rawCollections) : isAuthCollection(rawCollections[i])
    /\ answers.enableAuthViews => answers.enableAuth
    /\ gpc = "done"
    /\ processedCollections = processCollections(rawCollections)
    /\ authCollections = SelectSeq(processedCollections, isAuthCollection)
    /\ artifacts = storeCommonArtifacts
          \cup {actionModuleArtifact(processedCollections[k]) : k \in 1..Len(processedCollections)}
          \cup {validatorArtifact(processedCollections[k]) : k \in 1..Len(processedCollections)}
          \cup UNION {formArtifacts(rawCollections[i], i) : i \in 1..Len(rawCollections)}
          \cup routerArtifacts(answers)
    /\ routes = buildRoutes(answers, rawCollections)
    /\ nav = [pc |-> "idle"]

\* router.push(to) by a user who is, or is not, signed in
Navigate ==
    /\ nav.pc \in {"idle", "settled"}
    /\ \E to \in NavTargets, user \in BOOLEAN :
          nav' = [pc |-> "resolve", user |-> user, to |-> to, redirects |-> 0]
    /\ UNCHANGED <<clock, written>>
    /\ UNCHANGED <<viewVars, namingVars, validatorVars, genVars, storeVars, pagingVars, crudVars>>

\* the router resolves the location: a record of its own, or the catch-all
\* record, whose redirect '/' starts the resolution again
ResolveRoute ==
    /\ nav.pc = "resolve"
    /\ IF matchRoute(nav.to) # 0
       THEN nav' = [nav EXCEPT !.pc = "guard"]
       ELSE nav' = [nav EXCEPT !.to = Location("Home", <<>>),
                               !.redirects = IF @ < MaxRedirects THEN @ + 1 ELSE @]
    /\ UNCHANGED <<clock, written>>
    /\ UNCHANGED <<viewVars, namingVars, validatorVars, genVars, storeVars, pagingVars, crudVars>>

\* the beforeEach guards run on the matched record
RunGuards ==
    /\ nav.pc = "guard"
    /\ LET meta == routes[matchRoute(nav.to)]
           verdict == IF answers.enableAuth THEN authGuard(meta, nav.user) ELSE "next"
       IN IF verdict = "next"
          THEN nav' = [nav EXCEPT !.pc = "settled"]
          ELSE nav' = [nav EXCEPT !.pc = "resolve",
                                  !.to = Location(IF verdict = "/login" THEN "Login" ELSE "Home",
                                                  <<>>),
                                  !.redirects = IF @ < MaxRedirects THEN @ + 1 ELSE @]
    /\ UNCHANGED <<clock, written>>
    /\ UNCHANGED <<viewVars, namingVars, validatorVars, genVars, storeVars, pagingVars, crudVars>>

NavNext == Navigate \/ ResolveRoute \/ RunGuards

\* the router goes on with a navigation it has started
NavFairness == WF_vars(ResolveRoute) /\ WF_vars(RunGuards)

InitNaming == NamingInit /\ ProjectIdle /\ ViewIdle /\ ValidatorIdle /\ GenIdle /\ StoreIdle /\ PagingIdle
SpecNaming == InitNaming /\ [][NamingNext]_vars

InitValidator == ValidatorInit /\ ProjectIdle /\ ViewIdle /\ NamingIdle /\ GenIdle /\ StoreIdle /\ PagingIdle
SpecValidator == InitValidator /\ [][ValidatorNext]_vars

\* the validator of a collection that has an email field
InitEmailValidator ==
    /\ InitValidator
    /\ \E i \in 1..Len(vFields) : vFields[i] = "email"
SpecEmailValidator == InitEmailValidator /\ [][ValidatorNext]_vars

InitGen == GenInit /\ ProjectIdle /\ ViewIdle /\ NamingIdle /\ ValidatorIdle /\ StoreIdle /\ PagingIdle
SpecGen == InitGen /\ [][GenNext]_vars

InitStoreRoles ==
    /\ StoreInit
    /\ PagingInit /\ filters = <<>>
    /\ ProjectIdle /\ ViewIdle /\ NamingIdle /\ ValidatorIdle /\ GenIdle
SpecStoreRoles == InitStoreRoles /\ [][StoreRolesNext]_vars

\* a signed-out visitor pages through the items collection, generated without roles
InitStorePaging ==
    /\ StoreInit
    /\ collectionName = <<"i", "t", "e", "m", "s">>
    /\ roles = {}
    /\ currentUser = NoUser
    /\ \A id \in DOMAIN db : db[id] = {}
    /\ PagingInit
    /\ ProjectIdle /\ ViewIdle /\ NamingIdle /\ ValidatorIdle /\ GenIdle
SpecStorePaging == InitStorePaging /\ [][StorePagingNext]_vars

\* a signed-out visitor works on the items collection, which holds MaxDocs
\* documents and whose state holds a filter list
InitNextPageOverlap ==
    /\ StoreInit
    /\ collectionName = <<"i", "t", "e", "m", "s">>
    /\ roles = {}
    /\ currentUser = NoUser
    /\ \A id \in DOMAIN db : db[id] = {}
    /\ FirstPageLoaded
    /\ ProjectIdle /\ ViewIdle /\ NamingIdle /\ ValidatorIdle /\ GenIdle
SpecNextPageOverlap == InitNextPageOverlap /\ [][NextPageOverlapNext]_vars

SpecPageThrough == InitStorePaging /\ [][PageThroughNext]_vars /\ PageThroughFairness

InitStoreCrud ==
    /\ StoreInit
    /\ collectionName = <<"i", "t", "e", "m", "s">>
    /\ roles = {}
    /\ currentUser = NoUser
    /\ DOMAIN db = 1..MaxDocs
    /\ \A id \in DOMAIN db : db[id] = {}
    /\ PagingInit /\ filters = <<>>
    /\ ProjectIdle /\ ViewIdle /\ NamingIdle /\ ValidatorIdle /\ GenIdle
SpecStoreCrud == InitStoreCrud /\ [][StoreCrudNext]_vars

InitAuth ==
    /\ AuthIdle /\ FormIdle
    /\ ProjectIdle /\ NamingIdle /\ ValidatorIdle /\ GenIdle /\ StoreIdle /\ PagingIdle
SpecAuth == InitAuth /\ [][AuthNext]_vars

InitCreateForm ==
    /\ CreateFormInit /\ AuthIdle
    /\ ProjectIdle /\ NamingIdle /\ ValidatorIdle /\ GenIdle /\ StoreIdle /\ PagingIdle
SpecCreateForm == InitCreateForm /\ [][CreateFormNext]_vars

InitArrayField ==
    /\ ArrayFieldInit /\ AuthIdle
    /\ ProjectIdle /\ NamingIdle /\ ValidatorIdle /\ GenIdle /\ StoreIdle /\ PagingIdle
SpecArrayField == InitArrayField /\ [][ArrayFieldNext]_vars

InitRegen ==
    /\ RegenInit /\ NavIdle
    /\ ViewIdle /\ NamingIdle /\ ValidatorIdle /\ StoreIdle /\ PagingIdle
SpecRegen == InitRegen /\ [][RegenNext]_vars

InitSubmitPair ==
    /\ PairInit /\ AuthIdle
    /\ ProjectIdle /\ NamingIdle /\ ValidatorIdle /\ GenIdle /\ StoreIdle /\ PagingIdle
SpecSubmitPair == InitSubmitPair /\ [][PairNext]_vars

InitNav ==
    /\ NavInit /\ RegenIdle
    /\ ViewIdle /\ NamingIdle /\ ValidatorIdle /\ StoreIdle /\ PagingIdle
SpecNav == InitNav /\ [][NavNext]_vars /\ NavFairness

InitSubmitForm ==
    /\ SubmitFormInit /\ AuthIdle
    /\ ProjectIdle /\ NamingIdle /\ ValidatorIdle /\ GenIdle /\ StoreIdle /\ PagingIdle
SpecSubmitForm == InitSubmitForm /\ [][SubmitFormNext]_vars

(***************************************************************************)
(* Properties of the naming helpers                                        *)
(***************************************************************************)
IsLetter(c) == IsUpperChar(c) \/ IsLowerChar(c)

\* a name built from tokens of letters, one separator between two tokens
IsTokenName(s) ==
    /\ s # <<>>
    /\ IsLetter(s[1])
    /\ IsLetter(s[Len(s)])
    /\ \A i \in 1..Len(s) : IsLetter(s[i]) \/ IsSeparator(s[i])
    /\ \A i \in 1..(Len(s) - 1) : ~(IsSeparator(s[i]) /\ IsSeparator(s[i + 1]))

\* C5: toCamelCase and toPascalCase are idempotent on every name built from
\* tokens separated by space, hyphen or underscore: applying the helper to its
\* own result gives that result again.
C5_NamingIdempotent ==
    (nmStep = 2 /\ IsTokenName(nmRaw)) => nmTwice = nmOnce

\* C6: whenever the derived identifier is non-empty, its first character is
\* uppercase for toPascalCase and lowercase for toCamelCase, also for names that
\* begin with a hyphen or underscore.
C6_FirstCharacterCase ==
    (nmStep >= 1 /\ nmOnce # <<>>) =>
        IF nmOp = "pascal" THEN IsUpperChar(nmOnce[1]) ELSE IsLowerChar(nmOnce[1])

(***************************************************************************)
(* Properties of the emitted validator                                     *)
(***************************************************************************)
\* absent (undefined, null) or blank (an empty or whitespace-only string)
AbsentOrBlank(v) == v \in {"undefined", "null", "''", "' '"}

\* the type predicates as the specification words them
SatisfiesType(type, v) ==
    CASE type = "string" -> typeOf(v) = "string"
      [] type = "number" -> typeOf(v) = "number" /\ v # "NaN"
      [] type = "boolean" -> typeOf(v) = "boolean"
      [] type = "array" -> isArray(v)
      [] type = "object" -> typeOf(v) = "object" /\ ~isArray(v) /\ v # "null"
      [] type = "timestamp" -> ~dateIsInvalid(v)
      [] type = "email" -> typeOf(v) = "string" /\ emailRegexTest(v)
      [] OTHER -> TRUE

HasError(e) == \E k \in 1..Len(vErrors) : vErrors[k] = e
ErrorsOfField(i) == {k \in 1..Len(vErrors) : vErrors[k].field = i}

\* C3: the error list holds every required error, in declaration order, before
\* any type error; no field has both a required and a type error; an absent or
\* blank field is reported exactly once, as required.
C3_RequiredBeforeType ==
    vpc = "done" =>
        /\ \A j, k \in 1..Len(vErrors) :
              (vErrors[j].kind = "required" /\ vErrors[k].kind = "type") => j < k
        /\ \A j, k \in 1..Len(vErrors) :
              (j < k /\ vErrors[j].kind = "required" /\ vErrors[k].kind = "required")
                  => vErrors[j].field < vErrors[k].field
        /\ \A i \in 1..Len(vFields) : ~(HasError(RequiredError(i)) /\ HasError(TypeError(i)))
        /\ \A i \in 1..Len(vFields) :
              AbsentOrBlank(vData[i]) =>
                  /\ Cardinality(ErrorsOfField(i)) = 1
                  /\ HasError(RequiredError(i))

\* C4: for each field the validator reports a required error iff the value is
\* absent or blank, otherwise a type error iff the value fails the type's
\* predicate, otherwise nothing; scenario A yields exactly (title required,
\* price not a number).
C4_ValidatorVerdicts ==
    vpc = "done" =>
        /\ \A i \in 1..Len(vFields) :
              /\ HasError(RequiredError(i)) <=> AbsentOrBlank(vData[i])
              /\ HasError(TypeError(i)) <=>
                    (~AbsentOrBlank(vData[i]) /\ ~SatisfiesType(vFields[i], vData[i]))
        /\ (vFields = ScenarioAFields /\ vData = ScenarioAData) =>
              vErrors = <<RequiredError(1), TypeError(2)>>

(***************************************************************************)
(* Properties of the generation run                                        *)
(***************************************************************************)
StoreGenerationReturned == gpc \in {"forms", "router", "done", "failed"}

LacksName(c) == ~c.nameDefined \/ Len(c.name) = 0
LacksFieldMap(c) == c.fields \notin {"empty", "some"}

\* C7: generateStore fails whenever some raw collection lacks a name or a
\* field map, does not fail on a non-empty list whose collections all have a
\* name and a field map (an empty field map included), and after a failure no
\* directory or file has been written.
C7_NormalizationFailsCleanly ==
    StoreGenerationReturned =>
        /\ (\E i \in 1..Len(rawCollections) :
                LacksName(rawCollections[i]) \/ LacksFieldMap(rawCollections[i]))
              => gpc = "failed"
        /\ (/\ Len(rawCollections) > 0
            /\ \A i \in 1..Len(rawCollections) :
                  ~LacksName(rawCollections[i]) /\ ~LacksFieldMap(rawCollections[i]))
              => gpc # "failed"
        /\ gpc = "failed" => (artifacts = {} /\ routes = <<>>)

\* a failed run with a collection lacking its field map next to an accepted one
\* whose field map is empty
C7_Witness ==
    /\ gpc = "failed"
    /\ Len(rawCollections) = 2
    /\ ~LacksName(rawCollections[1]) /\ rawCollections[1].fields = "empty"
    /\ ~LacksName(rawCollections[2]) /\ rawCollections[2].fields = "undefined"

\* a finished run that accepted a collection with an empty field map
C7_WitnessEmptyFieldMapAccepted ==
    /\ gpc = "done"
    /\ \E i \in 1..Len(rawCollections) : rawCollections[i].fields = "empty"

HasEmptyCanonicalName(c) == c.nameDefined /\ Len(trim(toCamelCase(c.name))) = 0

\* C8: a raw collection whose canonical name is empty is absent from the
\* normalized list and no generator writes an artifact or a route for it.
C8_EmptyNameDroppedEverywhere ==
    \A i \in 1..Len(rawCollections) :
        HasEmptyCanonicalName(rawCollections[i]) =>
            /\ \A k \in 1..Len(processedCollections) : processedCollections[k].of # i
            /\ \A a \in artifacts : a.of # i
            /\ \A k \in 1..Len(routes) : routes[k].of # i

(***************************************************************************)
(* Properties of the role-gated operations                                 *)
(***************************************************************************)
\* the canonical name is in the identity-like set and the module was generated
\* with a non-empty roles list
IsIdentityLike(name) == toLowerCase(name) \in AuthCollectionNames
RoleSupportApplies == IsIdentityLike(collectionName) /\ roles # {}
CallerIsAdmin == currentUser.signedIn /\ "admin" \in currentUser.roles

\* C1: on an identity-like collection generated with roles, remove(id) by a
\* caller without the admin role ends in an authorization error and deleteDoc
\* is not invoked; deleteDoc is invoked only for a caller that passed the check.
C1_RemoveRequiresAdmin ==
    (RoleSupportApplies /\ lastCall.op = "remove") =>
        /\ ~CallerIsAdmin => (lastCall.outcome = "authError" /\ ~lastCall.deleteInvoked)
        /\ lastCall.deleteInvoked => CallerIsAdmin

\* C9: assignRoles and revokeRoles are callable only on an identity-like
\* collection generated with roles; there, called by an admin for an existing
\* user (the store accepting the write), they leave the user's roles equal to
\* the previous roles united with, respectively minus, the argument; called by
\* anyone else they fail and leave the stored roles as they were.
C9_RoleActions ==
    lastCall.op \in {"assignRoles", "revokeRoles"} =>
        /\ lastCall.outcome # "notAFunction" => RoleSupportApplies
        /\ (/\ RoleSupportApplies /\ CallerIsAdmin
            /\ lastCall.id \in DOMAIN db /\ lastCall.outcome # "storeError")
              => db[lastCall.id] =
                    IF lastCall.op = "assignRoles"
                    THEN lastCall.prevRoles \cup lastCall.rolesArg
                    ELSE lastCall.prevRoles \ lastCall.rolesArg
        /\ (RoleSupportApplies /\ ~CallerIsAdmin)
              => /\ lastCall.outcome # "ok"
                 /\ rolesOf(lastCall.id) = lastCall.prevRoles

(***************************************************************************)
(* Properties of pagination                                                *)
(***************************************************************************)
\* C2: once a page query of fetchInitialPage or fetchNextPage has been answered
\* and applied, hasMore tells whether the number of rows it returned equals the
\* limit the query was sent with.
C2_HasMoreComparesRowsToLimit ==
    lastFetch.op # "none" => (hasMore <=> lastFetch.rows = lastFetch.limit)

\* the step is an invocation of fetchNextPage
FetchNextPageInvoked == calls' = calls + 1 /\ lastCall'.op = "fetchNextPage"

\* C10: a fetchNextPage invoked while the cursor is null or hasMore is false
\* sends no query and leaves items, cursor, hasMore, filters, sort, the loading
\* flag and the error slot as they were.
C10_NextPageNoOp ==
    [][(FetchNextPageInvoked /\ (lastVisible = 0 \/ ~hasMore))
          => UNCHANGED <<items, lastVisible, hasMore, filters, orderBy, loading, error,
                         queries, inflight>>]_vars

\* fetchNextPage has just returned early with a cursor at hand and hasMore false
C10_Witness ==
    /\ lastCall.op = "fetchNextPage"
    /\ lastCall.skipped
    /\ lastVisible # 0
    /\ ~hasMore
    /\ items # <<>>

CallEnded ==
    \/ BagCardinality(inflight') < BagCardinality(inflight)
    \/ inflight' = inflight /\ calls' = calls + 1

KnownCauses(op) ==
    CASE op = "login" -> {"auth/user-not-found", "auth/wrong-password",
                          "auth/too-many-requests", "auth/user-disabled"}
      [] op = "signUp" -> {"auth/email-already-in-use", "auth/invalid-email",
                           "auth/weak-password", "auth/operation-not-allowed"}
      [] op = "changePassword" -> {"auth/wrong-password", "auth/requires-recent-login",
                                   "auth/weak-password"}
      [] OTHER -> {}

FixedMessage(op, code) ==
    CASE op = "login" -> loginErrorMessage(AuthError(code, ""))
      [] op = "signUp" -> signUpErrorMessage(AuthError(code, ""))
      [] OTHER -> changePasswordErrorMessage(AuthError(code, ""))

InErrors(e) == \E k \in 1..Len(vErrors) : vErrors[k] = e

defaultValue(type) ==
    CASE type \in {"string", "email", "timestamp"} -> "''"
      [] type = "number" -> "0"
      [] type = "boolean" -> "false"
      [] type = "array" -> "[]"
      [] type = "object" -> "{}"

UnparsableFields ==
    {i \in 1..Len(form.fields) : form.fields[i] = "object" /\ form.texts[i] = "invalid"}

AuthRouteKinds == {"Login", "Register", "ForgotPassword", "ResetPassword", "VerifyEmail",
                   "Unauthorized", "Account", "Settings"}
AdminRouteKinds == {"AdminDashboard", "AdminUsers"}

\* the positions of the routes of the given kinds
RoutesOfKinds(kinds) == {k \in 1..Len(routes) : routes[k].kind \in kinds}

\* C19: the route list of a completed run is: the '/' entry (the landing page
\* if the landing flag is set, the home view otherwise), the authentication
\* routes iff auth and auth views are both enabled, the admin routes iff admin
\* is enabled, a create and an edit route per collection in schema order, and
\* the catch-all redirect to '/', each block once and in this order.
C19_RouteListShape ==
    gpc = "done" =>
        LET nAuth == IF answers.enableAuth /\ answers.enableAuthViews
                     THEN Cardinality(AuthRouteKinds) ELSE 0
            nAdmin == IF answers.enableAdmin THEN Cardinality(AdminRouteKinds) ELSE 0
            nCol == Len(rawCollections)
            base == 1 + nAuth + nAdmin
        IN /\ Len(routes) = base + 2 * nCol + 1
           /\ RoutesOfKinds({"Home"}) = {1}
           /\ routes[1].component = IF answers.enableLanding THEN "LandingPage" ELSE "HomeView"
           /\ RoutesOfKinds(AuthRouteKinds) = 2..(1 + nAuth)
           /\ \A kind \in AuthRouteKinds : Cardinality(RoutesOfKinds({kind})) = IF nAuth = 0 THEN 0 ELSE 1
           /\ RoutesOfKinds(AdminRouteKinds) = (2 + nAuth)..base
           /\ \A kind \in AdminRouteKinds : Cardinality(RoutesOfKinds({kind})) = IF nAdmin = 0 THEN 0 ELSE 1
           /\ \A i \in 1..nCol :
                 /\ routes[base + 2 * i - 1].kind = "Create"
                 /\ routes[base + 2 * i].kind = "Edit"
                 /\ routes[base + 2 * i - 1].of = i
                 /\ routes[base + 2 * i].of = i
                 /\ routes[base + 2 * i - 1].col = toCamelCase(rawCollections[i].name)
                 /\ routes[base + 2 * i].col = toCamelCase(rawCollections[i].name)
           /\ RoutesOfKinds({"CatchAll"}) = {Len(routes)}
           /\ routes[Len(routes)].component = "redirect:/"

\* a run with the landing page, auth views, admin and two collections is done
C19_Witness ==
    /\ gpc = "done"
    /\ answers.enableLanding /\ answers.enableAuth /\ answers.enableAuthViews
    /\ answers.enableAdmin
    /\ Len(rawCollections) = 2
    /\ Len(routes) = 16

(***************************************************************************)
(* Properties of the references between the artifacts of a collection      *)
(***************************************************************************)
\* the processed collections made from raw collection i
ProcessedOf(i) ==
    {processedCollections[k] : k \in {j \in 1..Len(processedCollections) :
                                         processedCollections[j].of = i}}

\* C20: after a completed run, for every collection the validator module and
\* function its create and edit views import, and the add, update and
\* load-by-id operations they invoke, are what the validator and the action
\* file generated for that collection define.
C20_ViewReferencesResolve ==
    gpc = "done" =>
        \A i \in 1..Len(rawCollections) :
            \E c \in ProcessedOf(i) :
                /\ viewValidatorImport(rawCollections[i]) = validatorExports(c)
                /\ \A roleExports \in BOOLEAN :
                      viewStoreCalls(rawCollections[i]) \subseteq actionExports(c, roleExports)

(***************************************************************************)
(* Properties of the emitted store index.js                                *)
(***************************************************************************)
StoreGenerated == gpc \in {"forms", "router", "done"}

\* C21: every <col>Actions identifier the emitted index.js uses, inside the auth
\* actions too, is one that index.js initializes for a collection of the schema.
C21_NoHiddenCoupling ==
    StoreGenerated =>
        indexFileRefs(namesOf(processedCollections), namesOf(authCollections))
            \subseteq actionInits(namesOf(processedCollections))

\* C22: the emitted store has the auth actions login, signUp, logout,
\* sendPasswordReset, updateProfile, changePassword and fetchUser exactly when
\* authentication is enabled, whatever the collections are.
C22_AuthActionsIffEnabled ==
    StoreGenerated =>
        LET emitted == authActions(namesOf(authCollections))
            expected == {"login", "signUp", "logout", "sendPasswordReset", "updateProfile",
                         "changePassword", "fetchUser"}
        IN IF answers.enableAuth THEN expected \subseteq emitted
                                 ELSE expected \cap emitted = {}

(***************************************************************************)
(* Properties of regeneration                                              *)
(***************************************************************************)
\* C23: any two runs of the generators on the same schema and options write the
\* same text for the validator modules, the form views, the persistence module
\* and the router file.
C23_RegenerationIdentical ==
    \A i, j \in 1..Len(written) :
        /\ written[i].validators = written[j].validators
        /\ written[i].views = written[j].views
        /\ written[i].persistence = written[j].persistence
        /\ written[i].router = written[j].router

(***************************************************************************)
(* Properties of the file paths of a run                                   *)
(***************************************************************************)
\* the paths written for raw collection i
pathsOf(i) ==
    {[dir |-> a.dir, name |-> a.name, file |-> a.file] : a \in {b \in artifacts : b.of = i}}

\* C24: after a completed run, the paths written for two collections with
\* different names (action module, validator, view directory, Create.vue and
\* Edit.vue) have no path in common.
C24_PathsDisjoint ==
    gpc = "done" =>
        \A i, j \in 1..Len(rawCollections) :
            rawCollections[i].name # rawCollections[j].name =>
                pathsOf(i) \cap pathsOf(j) = {}

(***************************************************************************)
(* Properties of the forms paired with the validators                      *)
(***************************************************************************)
\* C25: whichever generator emitted the form and whichever emitted the
\* validator, a submit reaches the store's add only if the validator reported
\* no error for it.
C25_NoStoreCallOnErrors ==
    form.pc = "saving" => form.returned.n = 0

\* C26: handleSubmit of Create.vue and Edit.vue ends with isLoading false,
\* whether it ended at an object text that does not parse, at validation
\* errors, at a failure of the store or in success.
C26_SubmitEndsNotLoading ==
    form.pc \in {"blocked", "invalid", "failed", "saved"} => ~form.isLoading

(***************************************************************************)
(* Properties of overlapping calls                                         *)
(***************************************************************************)
\* C27: whatever the interleaving of overlapping fetchNextPage calls, no
\* document id is in items twice.
C27_NoDuplicateItems ==
    \A i, j \in 1..Len(items) : items[i] = items[j] => i = j

\* the calls in flight that set the loading flag when they start
LoadingCalls ==
    {c \in BagToSet(inflight) : c.op \in {"fetchInitialPage", "fetchNextPage", "search"}}

\* C29: the loading flag is true exactly while a fetchInitialPage, fetchNextPage
\* or search call is in flight, also when several of them overlap.
C29_LoadingWhileInFlight ==
    loading <=> LoadingCalls # {}

(***************************************************************************)
(* Properties of paging through a collection                               *)
(***************************************************************************)
\* every matching document, in query order
AllRows == ordered(matching(filters), orderBy)

\* C28: against an unchanging store, fetchInitialPage followed by repeated
\* fetchNextPage calls reaches hasMore = false, and whenever hasMore is false
\* items is every matching row in query order, each once.
C28_PagingTerminatesComplete ==
    /\ <>(~hasMore)
    /\ [](~hasMore => items = AllRows)

(***************************************************************************)
(* Properties of navigation                                                *)
(***************************************************************************)
\* C30: with the generated routes and authGuard, every navigation, by a user
\* signed in or not and for every combination of the feature flags, settles
\* on a route after finitely many redirects.
C30_NavigationSettles ==
    (nav.pc = "resolve") ~> (nav.pc = "settled")

====
